---- MODULE Spec2Model ----
(***************************************************************************)
(* Command relay and device link of arduino-ai-control.                    *)
(*                                                                         *)
(* Two programs of the repository are modelled.  The control app           *)
(* (arduino-control-app/server.js) owns the serial transport, the pending  *)
(* set responseQueue and the ArduinoController.  The cloud relay           *)
(* (cloud server.js) owns the Bridge Registry connectedBridges and talks   *)
(* to bridges (arduino-bridge/bridge.js) over WebSockets.  The variable    *)
(* program says which of the two processes a behaviour is about.           *)
(***************************************************************************)
EXTENDS Integers, FiniteSets, Sequences, Bags, TLC

(***************************************************************************)
(* Bounds of the model.                                                    *)
(***************************************************************************)
MaxCmd == 2          \* sendCommand calls that reach the id generator in one run of the app
MaxRounds == 11      \* responses with function calls the model gives to one chat request
MaxCtlCalls == 1     \* ArduinoController calls in one run of the dispatcher specification
MaxStatus == 1       \* unsolicited frames of the device in flight at a time
MaxConn == 2         \* WebSocket connections the relay accepts in one run
MaxRelayCmd == 2      \* executeArduinoFunction calls that reach uuidv4() in one run
MaxChatCmd == 1      \* of these, the calls made for chat messages
MaxNow == 40000      \* the relay's clock stops here
ClockStep == 10000   \* granularity of the relay's clock, in ms
TickMs == 50           \* firmware: time from one pass of loop() to the next, in ms
MaxFwLines == 2        \* lines the host writes to the firmware
MaxFwMillis == 1400    \* millis() up to which the firmware is followed under two lines
MaxEffectLines == 1    \* lines the host writes when one effect is followed
MaxEffectMillis == 2600 \* millis() up to which one effect is followed
MaxOpens == 3          \* calls of initializeArduino in one run
MaxAwaited == 1        \* direct commands sent to a bridge where their handlers are followed
MaxChats == 1          \* connections with an API key where the handlers are followed
MaxPinLines == 2       \* lines the host writes where the pins are followed
MaxPinMillis == 1200   \* millis() up to which the firmware is followed there
MaxFadeLines == 1      \* LED_FADE lines the host writes into a running fade
FadeStart == 30000     \* millis() at which a running fade is taken up
MaxFadeMillis == 30160 \* millis() up to which it is followed
MaxMirror == 3         \* ArduinoController calls that complete where the mirror is followed
MaxSockets == 3        \* WebSocket objects the bridge makes in one run

(***************************************************************************)
(* Program constants.                                                      *)
(***************************************************************************)
LED_BUILTIN == 13    \* the pin of the built-in LED of the board
NoId == 0            \* a frame without "id" (parsed.id is falsy)
StaleMs == 30000     \* bridge heartbeat: now - bridge.lastSeen > 30000
SweepMs == 10000     \* bridge heartbeat: setInterval(..., 10000)

VARIABLES
    program,         \* "app": the control app runs; "relay": the cloud relay runs
    arduinoOpen,     \* arduinoPort && arduinoPort.isOpen
    connected,       \* systemState.arduino.connected
    nextCmd,         \* number of correlation identifiers generated so far
    requests,        \* requests[r]: call r of sendCommand that got an identifier:
                     \*   [id, expectResponse, promise (state of the Promise it returned)]
    responseQueue,   \* entries of systemState.communication.responseQueue: [id, req]
    timeouts,        \* calls whose 5000 ms setTimeout has not fired yet
    writePending,    \* calls whose arduinoPort.write callback has not run yet
    wire,            \* frames written to the serial transport, not yet read by the device
    serialIn,        \* lines the device printed, not yet parsed by the host
    lastResponse,    \* systemState.communication.lastResponse
    lastCall,        \* last ArduinoController call and what its caller observed at once
    conn,            \* conn[ws]: "new" (not yet accepted), "open" or "closed"
    bridgeId,        \* bridgeId[ws]: ws.bridgeId, NoBridge while the connection has none
    connectedBridges,\* entries of the Map connectedBridges: [id, connection, lastSeen]
    now,             \* Date.now() of the relay, in ms
    nextSweep,       \* time at which the bridge heartbeat interval runs next
    nextRelayCmd,    \* number of uuidv4() command identifiers generated so far
    commands,        \* commands[c]: call c of executeArduinoFunction that got an identifier:
                     \*   [id, ws (bridge.connection), promise]
    cmdTimeouts,     \* calls whose 10000 ms setTimeout is armed
    listeners,       \* responseHandler listeners: [ws, commandId, req]
    toBridge,        \* arduino_command frames sent to a bridge transport, not yet handled
    fromBridge,      \* frames a bridge sent to the relay, not yet handled
    sent,            \* bag of the messages the relay sent in the latest step: [to, type, about]
    awaiting,        \* the suspended calls of handleArduinoCommand: [req, ws], in the field
                     \*   handlers; they are recorded and resumed where followed is TRUE
    userSessions,    \* relay: the Map userSessions, as the set of its entries
    chatSessions,    \* the keys of the Map chatSessions
    chat,            \* relay: where the chat message of each connection stands
    turn,            \* control app: where the chat request stands
    fw,              \* the firmware: its globals, its statics and what it printed
    handles,         \* control app: every SerialPort object made so far: [path, state]
    mirror,          \* control app: systemState.hardware, as [led, effects], and the
                     \*   number of completed calls
    cloud            \* bridge: its WebSocket objects, [ws, state], in sockets; the
                     \*   armed setTimeout(connectToCloud, 5000) calls in timers; the
                     \*   bridge_register frames it sent in registers

appVars == <<arduinoOpen, connected, nextCmd, requests, responseQueue,
             timeouts, writePending, wire, serialIn, lastResponse, lastCall, turn>>

relayVars == <<conn, bridgeId, connectedBridges, now, nextSweep, nextRelayCmd, commands,
               cmdTimeouts, listeners, toBridge, fromBridge, sent, awaiting>>

sessionVars == <<userSessions, chatSessions, chat>>

deviceVars == <<fw, handles, mirror, cloud>>

vars == <<program, appVars, relayVars, sessionVars, deviceVars>>

(***************************************************************************)
(* JavaScript Promise: the first resolve or reject decides, later calls    *)
(* are ignored.                                                            *)
(***************************************************************************)
Settle(p, outcome) == IF p = "pending" THEN outcome ELSE p

Resolved(p) == p \in {"resolved:success", "resolved:failure", "resolved:written"}
Rejected(p) == p \in {"rejected:timeout", "rejected:write"}
Settled(p) == Resolved(p) \/ Rejected(p)

Param(params, name, default) ==
    IF name \in DOMAIN params THEN params[name] ELSE default

NoParams == << >>

(***************************************************************************)
(* A JavaScript Map, kept as the set of its entries; the key of an entry   *)
(* is its field id.  Map.has, Map.get, Map.set, Map.delete.                *)
(***************************************************************************)
MapHas(map, key) == \E e \in map : e.id = key

MapGet(map, key) == CHOOSE e \in map : e.id = key

\* faulty variant of Map.set: the entry is added beside the one already stored under the key
MapSetKeepsOld(map, key, entry) == map \cup {entry}

MapSet(map, key, entry) == {e \in map : e.id # key} \cup {entry}

MapDelete(map, keys) == {e \in map : e.id \notin keys}

(***************************************************************************)
(* Command catalog of the control app.                                     *)
(***************************************************************************)
COMMANDS == {"LED_ON", "LED_OFF", "LED_BLINK", "LED_FADE", "LED_MORSE", "LED_PATTERN",
             "PIN_MODE", "DIGITAL_WRITE", "DIGITAL_READ", "ANALOG_WRITE", "ANALOG_READ",
             "SERVO_WRITE", "STOP_EFFECTS", "RESET", "STATUS", "PING"}

(***************************************************************************)
(* Firmware: the success flag processCommand puts into its response.       *)
(* Texts are sequences of characters.                                      *)
(***************************************************************************)
PwmPin(pin) == ~(pin # 3 /\ pin # 5 /\ pin # 6 /\ pin # 9 /\ pin # 10 /\ pin # 11)

OnlyBits(pattern) == \A i \in 1..Len(pattern) : pattern[i] \in {"0", "1"}

processCommand(command, params) ==
    CASE command \in {"PING", "LED_ON", "LED_OFF", "STOP_EFFECTS", "RESET", "STATUS"} -> TRUE
      [] command = "LED_BLINK" ->
            LET rate == Param(params, "rate", 500) IN ~(rate < 50 \/ rate > 5000)
      [] command = "LED_FADE" ->
            LET speed == Param(params, "speed", 5) IN ~(speed < 1 \/ speed > 10)
      [] command = "LED_MORSE" ->
            LET text == Param(params, "text", << >>) IN ~(Len(text) = 0 \/ Len(text) > 50)
      [] command = "LED_PATTERN" ->
            LET pattern == Param(params, "pattern", << >>) IN
            ~(Len(pattern) = 0 \/ Len(pattern) > 100) /\ OnlyBits(pattern)
      [] command = "PIN_MODE" ->
            LET pin == Param(params, "pin", -1)
                mode == Param(params, "mode", "")
            IN  ~(pin < 0 \/ pin > 19) /\ mode \in {"OUTPUT", "INPUT", "INPUT_PULLUP"}
      [] command = "DIGITAL_WRITE" ->
            LET pin == Param(params, "pin", -1)
                value == Param(params, "value", -1)
            IN  ~(pin < 0 \/ pin > 19 \/ (value # 0 /\ value # 1))
      [] command = "DIGITAL_READ" ->
            LET pin == Param(params, "pin", -1) IN ~(pin < 0 \/ pin > 19)
      [] command = "ANALOG_WRITE" ->
            LET pin == Param(params, "pin", -1)
                value == Param(params, "value", -1)
            IN  ~(~PwmPin(pin) \/ value < 0 \/ value > 255)
      [] command = "ANALOG_READ" ->
            LET pin == Param(params, "pin", -1) IN ~(pin < 0 \/ pin > 5)
      [] command = "SERVO_WRITE" ->
            LET pin == Param(params, "pin", -1)
                angle == Param(params, "angle", -1)
            IN  ~(pin < 2 \/ pin > 13 \/ angle < 0 \/ angle > 180)
      [] OTHER -> FALSE

\* sendStatusUpdate prints a status frame that carries no "id"
sendStatusUpdate == [id |-> NoId, success |-> TRUE, type |-> "status"]

\* the dataType processCommand passes to sendResponse
dataType(command) ==
    IF command \in {"DIGITAL_READ", "ANALOG_READ"} THEN "reading" ELSE "result"

\* sendResponse(commandId, success, message, type)
sendResponse(commandId, success, type) ==
    [id |-> commandId, success |-> success, type |-> type]

\* systemState.communication.lastResponse before the first line arrives
NoResponse == [id |-> NoId, success |-> FALSE, type |-> "none"]

(***************************************************************************)
(* Device Link of the control app.                                         *)
(***************************************************************************)
Frame(commandId, command, params) ==
    [id |-> commandId, command |-> command, params |-> params]

\* Date.now().toString() + Math.random().toString(36).substring(2, 11): the
\* identifier source is taken to return a value it has not returned before.
NewCommandId == nextCmd + 1

\* the Promise of call r is settled with outcome
SettleRequest(reqs, r, outcome) ==
    [reqs EXCEPT ![r].promise = Settle(@, outcome)]

\* faulty variant of sendCommand: the entry and the timer are set up whether or
\* not a response is expected
sendCommandAlwaysQueues(command, params, expectResponse) ==
    IF ~arduinoOpen
    THEN UNCHANGED <<nextCmd, requests, responseQueue, timeouts, writePending, wire>>
    ELSE LET commandId == NewCommandId
             r == Len(requests) + 1
         IN
         /\ nextCmd' = nextCmd + 1
         /\ requests' = Append(requests, [id |-> commandId,
                                          expectResponse |-> expectResponse,
                                          promise |-> "pending"])
         /\ responseQueue' = MapSet(responseQueue, commandId, [id |-> commandId, req |-> r])
         /\ timeouts' = timeouts \cup {r}
         /\ writePending' = writePending \cup {r}
         /\ wire' = Append(wire, Frame(commandId, command, params))

sendCommand(command, params, expectResponse) ==
    IF ~arduinoOpen
    THEN UNCHANGED <<nextCmd, requests, responseQueue, timeouts, writePending, wire>>
    ELSE LET commandId == NewCommandId
             r == Len(requests) + 1
         IN
         /\ nextCmd' = nextCmd + 1
         /\ requests' = Append(requests, [id |-> commandId,
                                          expectResponse |-> expectResponse,
                                          promise |-> "pending"])
         /\ responseQueue' = IF expectResponse
                             THEN MapSet(responseQueue, commandId,
                                         [id |-> commandId, req |-> r])
                             ELSE responseQueue
         /\ timeouts' = IF expectResponse THEN timeouts \cup {r} ELSE timeouts
         /\ writePending' = writePending \cup {r}
         /\ wire' = Append(wire, Frame(commandId, command, params))

\* faulty variant of the setTimeout callback: it rejects and leaves the entry in the pending set
CommandTimeoutKeepsEntry(r) ==
    /\ program = "app"
    /\ r \in timeouts
    /\ timeouts' = timeouts \ {r}
    /\ requests' = IF MapHas(responseQueue, requests[r].id)
                   THEN SettleRequest(requests, r, "rejected:timeout")
                   ELSE requests
    /\ UNCHANGED <<program, deviceVars, relayVars, sessionVars, turn, arduinoOpen, connected, nextCmd, responseQueue,
                   writePending, wire, serialIn, lastResponse, lastCall>>

\* the setTimeout callback of call r of sendCommand
CommandTimeout(r) ==
    LET commandId == requests[r].id IN
    /\ program = "app"
    /\ r \in timeouts
    /\ timeouts' = timeouts \ {r}
    /\ IF MapHas(responseQueue, commandId)
       THEN /\ responseQueue' = MapDelete(responseQueue, {commandId})
            /\ requests' = SettleRequest(requests, r, "rejected:timeout")
       ELSE UNCHANGED <<responseQueue, requests>>
    /\ UNCHANGED <<program, deviceVars, relayVars, sessionVars, turn, arduinoOpen, connected, nextCmd, writePending,
                   wire, serialIn, lastResponse, lastCall>>

DropFrame(w, commandId) == SelectSeq(w, LAMBDA f : f.id # commandId)

\* the callback of arduinoPort.write of call r; a failed write delivers nothing
WriteCallback(r, err) ==
    LET commandId == requests[r].id IN
    /\ program = "app"
    /\ r \in writePending
    /\ writePending' = writePending \ {r}
    /\ IF err
       THEN /\ responseQueue' =
                   IF requests[r].expectResponse /\ MapHas(responseQueue, commandId)
                   THEN MapDelete(responseQueue, {commandId}) ELSE responseQueue
            /\ requests' = SettleRequest(requests, r, "rejected:write")
            /\ wire' = DropFrame(wire, commandId)
       ELSE /\ requests' = IF ~requests[r].expectResponse
                           THEN SettleRequest(requests, r, "resolved:written")
                           ELSE requests
            /\ UNCHANGED <<responseQueue, wire>>
    /\ UNCHANGED <<program, deviceVars, relayVars, sessionVars, turn, arduinoOpen, connected, nextCmd, timeouts,
                   serialIn, lastResponse, lastCall>>

\* faulty variant of the correlation step: it resolves and leaves the entry in the pending set
ResponseEffectKeepsEntry(parsed) ==
    IF parsed.id # NoId /\ MapHas(responseQueue, parsed.id)
    THEN /\ requests' = SettleRequest(requests, MapGet(responseQueue, parsed.id).req,
                IF parsed.success THEN "resolved:success" ELSE "resolved:failure")
         /\ UNCHANGED responseQueue
    ELSE UNCHANGED <<responseQueue, requests>>

\* what handleArduinoResponse does to the pending set and the promises
ResponseEffect(parsed) ==
    IF parsed.id # NoId /\ MapHas(responseQueue, parsed.id)
    THEN LET entry == MapGet(responseQueue, parsed.id) IN
         /\ responseQueue' = MapDelete(responseQueue, {parsed.id})
         /\ requests' = SettleRequest(requests, entry.req,
                IF parsed.success THEN "resolved:success" ELSE "resolved:failure")
    ELSE UNCHANGED <<responseQueue, requests>>

handleArduinoResponse ==
    /\ program = "app"
    /\ arduinoOpen
    /\ serialIn # << >>
    /\ LET parsed == Head(serialIn) IN
         /\ lastResponse' = parsed
         /\ ResponseEffect(parsed)
    /\ serialIn' = Tail(serialIn)
    /\ UNCHANGED <<program, deviceVars, relayVars, sessionVars, turn, arduinoOpen, connected, nextCmd, timeouts,
                   writePending, wire, lastCall>>

(***************************************************************************)
(* The device end of the serial transport: loop() of the firmware reads a  *)
(* line, processCommand answers it; STATUS is answered by a status frame   *)
(* without identifier.                                                     *)
(***************************************************************************)
DeviceReply(f) ==
    IF f.command = "STATUS"
    THEN sendStatusUpdate
    ELSE sendResponse(f.id, processCommand(f.command, f.params), dataType(f.command))

DeviceLoop ==
    /\ program = "app"
    /\ wire # << >>
    /\ serialIn' = Append(serialIn, DeviceReply(Head(wire)))
    /\ wire' = Tail(wire)
    /\ UNCHANGED <<program, deviceVars, relayVars, sessionVars, turn, arduinoOpen, connected, nextCmd, requests,
                   responseQueue, timeouts, writePending, lastResponse, lastCall>>

\* the periodic status frame of loop()
DeviceHeartbeat ==
    /\ program = "app"
    /\ arduinoOpen
    /\ Cardinality({i \in 1..Len(serialIn) : serialIn[i].id = NoId}) < MaxStatus
    /\ serialIn' = Append(serialIn, sendStatusUpdate)
    /\ UNCHANGED <<program, deviceVars, relayVars, sessionVars, turn, arduinoOpen, connected, nextCmd, requests,
                   responseQueue, timeouts, writePending, wire, lastResponse, lastCall>>

(***************************************************************************)
(* Serial port events of initializeArduino.                                *)
(***************************************************************************)
PortOpen ==
    /\ program = "app"
    /\ ~arduinoOpen
    /\ arduinoOpen' = TRUE
    /\ connected' = TRUE
    /\ UNCHANGED <<program, deviceVars, relayVars, sessionVars, turn, nextCmd, requests, responseQueue, timeouts,
                   writePending, wire, serialIn, lastResponse,
                   lastCall>>

PortError ==
    /\ program = "app"
    /\ arduinoOpen
    /\ connected' = FALSE
    /\ UNCHANGED <<program, deviceVars, relayVars, sessionVars, turn, arduinoOpen, nextCmd, requests, responseQueue,
                   timeouts, writePending, wire, serialIn, lastResponse, lastCall>>

\* the port closes: what is in transit in either direction is lost
PortClose ==
    /\ program = "app"
    /\ arduinoOpen
    /\ arduinoOpen' = FALSE
    /\ connected' = FALSE
    /\ wire' = << >>
    /\ serialIn' = << >>
    /\ UNCHANGED <<program, deviceVars, relayVars, sessionVars, turn, nextCmd, requests, responseQueue, timeouts,
                   writePending, lastResponse, lastCall>>

(***************************************************************************)
(* handleWebSocketMessage of the control app, case 'arduino_command': the  *)
(* command and the parameters of the message go to sendCommand as they     *)
(* are.  Not connected, the client gets a command_error and nothing else   *)
(* happens.                                                                *)
(***************************************************************************)
handleWebSocketMessage(command, params) ==
    /\ program = "app"
    /\ IF connected
       THEN sendCommand(command, params, TRUE)
       ELSE UNCHANGED <<nextCmd, requests, responseQueue, timeouts,
                        writePending, wire>>
    /\ UNCHANGED <<program, deviceVars, relayVars, sessionVars, turn, arduinoOpen, connected, serialIn, lastResponse, lastCall>>

(***************************************************************************)
(* Command Dispatcher: ArduinoController.  Each method either throws       *)
(* before anything is sent, or calls sendCommand with the command and the  *)
(* parameters given here.                                                  *)
(***************************************************************************)
Max(a, b) == IF a >= b THEN a ELSE b
Min(a, b) == IF a <= b THEN a ELSE b

Throw == [throws |-> TRUE]
Send(command, params) == [throws |-> FALSE, command |-> command, params |-> params]

ledOn == Send("LED_ON", NoParams)

ledOff == Send("LED_OFF", NoParams)

ledBlink(rate) ==
    LET safeRate == Max(50, Min(5000, rate)) IN Send("LED_BLINK", [rate |-> safeRate])

ledFade(speed) ==
    LET safeSpeed == Max(1, Min(10, speed)) IN Send("LED_FADE", [speed |-> safeSpeed])

setPinMode(pin, mode) ==
    LET validModes == {"INPUT", "OUTPUT", "INPUT_PULLUP"} IN
    IF pin >= 0 /\ pin <= 19 /\ mode \in validModes
    THEN Send("PIN_MODE", [pin |-> pin, mode |-> mode])
    ELSE Throw

digitalWrite(pin, value) ==
    IF pin >= 0 /\ pin <= 19 /\ (value = 0 \/ value = 1)
    THEN Send("DIGITAL_WRITE", [pin |-> pin, value |-> value])
    ELSE Throw

digitalRead(pin) ==
    IF pin >= 0 /\ pin <= 19 THEN Send("DIGITAL_READ", [pin |-> pin]) ELSE Throw

analogWrite(pin, value) ==
    LET pwmPins == {3, 5, 6, 9, 10, 11} IN
    IF pin \in pwmPins /\ value >= 0 /\ value <= 255
    THEN Send("ANALOG_WRITE", [pin |-> pin, value |-> value])
    ELSE Throw

analogRead(pin) ==
    IF pin >= 0 /\ pin <= 5 THEN Send("ANALOG_READ", [pin |-> pin]) ELSE Throw

\* faulty variant of servoWrite: the upper bound of the angle is off by one
servoWriteAboveRange(pin, angle) ==
    IF pin >= 2 /\ pin <= 13 /\ angle >= 0 /\ angle <= 181
    THEN Send("SERVO_WRITE", [pin |-> pin, angle |-> angle])
    ELSE Throw

servoWrite(pin, angle) ==
    IF pin >= 2 /\ pin <= 13 /\ angle >= 0 /\ angle <= 180
    THEN Send("SERVO_WRITE", [pin |-> pin, angle |-> angle])
    ELSE Throw

stopEffects == Send("STOP_EFFECTS", NoParams)

reset == Send("RESET", NoParams)

getStatus == Send("STATUS", NoParams)

\* the functions map of the chat endpoint: name and argument bag to method
ArduinoController(op, args) ==
    CASE op = "ledOn" -> ledOn
      [] op = "ledOff" -> ledOff
      [] op = "ledBlink" -> ledBlink(args.rate)
      [] op = "ledFade" -> ledFade(args.speed)
      [] op = "setPinMode" -> setPinMode(args.pin, args.mode)
      [] op = "digitalWrite" -> digitalWrite(args.pin, args.value)
      [] op = "digitalRead" -> digitalRead(args.pin)
      [] op = "analogWrite" -> analogWrite(args.pin, args.value)
      [] op = "analogRead" -> analogRead(args.pin)
      [] op = "servoWrite" -> servoWrite(args.pin, args.angle)
      [] op = "stopEffects" -> stopEffects
      [] op = "resetArduino" -> reset
      [] op = "getStatus" -> getStatus

NoCall == [op |-> "none", args |-> NoParams, outcome |-> "none"]

\* no chat request is being handled
NoTurn == [pc |-> "idle", asked |-> << >>, calls |-> << >>, req |-> 0, results |-> << >>,
           rounds |-> 0, reply |-> "none"]

\* one call of a method: what the caller observes before any response is awaited
ControllerCall(op, args) ==
    LET plan == ArduinoController(op, args) IN
    /\ program = "app"
    /\ IF plan.throws
       THEN /\ lastCall' = [op |-> op, args |-> args, outcome |-> "InvalidParameter"]
            /\ UNCHANGED <<nextCmd, requests, responseQueue, timeouts,
                           writePending, wire>>
       ELSE /\ sendCommand(plan.command, plan.params, TRUE)
            /\ lastCall' = [op |-> op, args |-> args,
                            outcome |-> IF arduinoOpen THEN "sent" ELSE "NotConnected"]
    /\ UNCHANGED <<program, deviceVars, relayVars, sessionVars, arduinoOpen, connected, serialIn, lastResponse>>

(***************************************************************************)
(* Inputs.                                                                 *)
(***************************************************************************)
Call(op, args) == [op |-> op, args |-> args]

\* every method with its boundary values and the values one outside
CtlCalls ==
    {Call(op, NoParams) : op \in {"ledOn", "ledOff", "stopEffects", "resetArduino", "getStatus"}}
    \cup {Call("ledBlink", [rate |-> r]) : r \in {49, 50, 500, 5000, 5001}}
    \cup {Call("ledFade", [speed |-> v]) : v \in {0, 1, 10, 11}}
    \cup {Call("setPinMode", [pin |-> p, mode |-> m]) :
             p \in {-1, 0, 19, 20}, m \in {"INPUT", "OUTPUT", "INPUT_PULLUP", "ANALOG"}}
    \cup {Call("digitalWrite", [pin |-> p, value |-> v]) :
             p \in {-1, 0, 19, 20}, v \in {-1, 0, 1, 2}}
    \cup {Call("digitalRead", [pin |-> p]) : p \in {-1, 0, 19, 20}}
    \cup {Call("analogWrite", [pin |-> p, value |-> v]) :
             p \in {2, 3, 4, 11, 12}, v \in {-1, 0, 255, 256}}
    \cup {Call("analogRead", [pin |-> p]) : p \in {-1, 0, 5, 6}}
    \cup {Call("servoWrite", [pin |-> p, angle |-> a]) :
             p \in {1, 2, 13, 14}, a \in {-1, 0, 180, 181}}

\* direct arduino_command messages of a WebSocket client
DirectCommands ==
    {[command |-> "LED_BLINK", params |-> [rate |-> 49]],
     [command |-> "STATUS", params |-> NoParams]}

\* function calls of the model in the running app
AppCalls ==
    {Call("ledOn", NoParams)}

(***************************************************************************)
(* The cloud relay.  A connection is known by its sessionId; the Bridge    *)
(* Registry is the Map connectedBridges, kept as the set of its entries.   *)
(***************************************************************************)
Conns == 1..MaxConn

BridgeIds == {"b1"}

\* bridge identities of the bridge_register messages the Bridge Registry is followed under
RegistryBridgeIds == {"b1", "b2"}

\* types of the messages a registered bridge sends besides bridge_register
BridgeTraffic == {"pong", "bridge_status", "arduino_response"}

NoBridge == ""

\* a connection no chat message of which is being handled
NoChat == [pc |-> "idle", bridge |-> NoBridge, calls |-> << >>, req |-> 0, results |-> << >>]

\* ws.send(JSON.stringify({type, ...})) to connection ws
Msg(ws, type, about) == [to |-> ws, type |-> type, about |-> about]

\* faulty variant of the answer of a handler: it goes to every open connection
ReplyToAll(ws, type, about) ==
    SetToBag({Msg(client, type, about) : client \in {c \in Conns : conn[c] = "open"}})

Reply(ws, type, about) == SetToBag({Msg(ws, type, about)})

\* ws.isBridge
isBridge(ws) == bridgeId[ws] # NoBridge

\* faulty variant of the broadcast: the isBridge mark of a client is not looked at
broadcastToEveryone(bridges, type, about) ==
    SetToBag({Msg(client, type, about) : client \in {c \in Conns : conn[c] = "open"}})

\* broadcastToUsers(message), run while the connections of bridges are bridges
broadcastToUsers(bridges, type, about) ==
    SetToBag({Msg(client, type, about) :
                client \in {c \in Conns : conn[c] = "open" /\ c \notin bridges}})

\* wss.on('connection'); connections are numbered in the order they are accepted
Connection(ws) ==
    /\ program = "relay"
    /\ conn[ws] = "new"
    /\ \A other \in Conns : other < ws => conn[other] # "new"
    /\ conn' = [conn EXCEPT ![ws] = "open"]
    /\ sent' = Reply(ws, "welcome", "Connected to Arduino AI Cloud")
    /\ UNCHANGED <<program, deviceVars, appVars, awaiting, sessionVars, bridgeId, connectedBridges, now, nextSweep,
                   nextRelayCmd, commands, cmdTimeouts, listeners, toBridge,
                   fromBridge>>

\* faulty variant of ws.on('close'): the chatSessions entry is left behind
CloseKeepsChat(ws) ==
    /\ program = "relay"
    /\ conn[ws] = "open"
    /\ conn' = [conn EXCEPT ![ws] = "closed"]
    /\ toBridge' = {m \in toBridge : m.ws # ws}
    /\ fromBridge' = {m \in fromBridge : m.ws # ws}
    /\ sent' = EmptyBag
    /\ userSessions' = MapDelete(userSessions, {ws})
    /\ UNCHANGED <<program, deviceVars, appVars, awaiting, chatSessions, chat, bridgeId, connectedBridges, now,
                   nextSweep, nextRelayCmd, commands, cmdTimeouts, listeners>>

\* ws.on('close'): frames still in transit on the connection are lost
Close(ws) ==
    /\ program = "relay"
    /\ conn[ws] = "open"
    /\ conn' = [conn EXCEPT ![ws] = "closed"]
    /\ toBridge' = {m \in toBridge : m.ws # ws}
    /\ fromBridge' = {m \in fromBridge : m.ws # ws}
    /\ sent' = EmptyBag
    /\ userSessions' = MapDelete(userSessions, {ws})
    /\ chatSessions' = chatSessions \ {ws}
    /\ UNCHANGED <<program, deviceVars, appVars, awaiting, chat, bridgeId, connectedBridges, now, nextSweep,
                   nextRelayCmd, commands, cmdTimeouts, listeners>>

handleBridgeRegistration(ws, id) ==
    /\ program = "relay"
    /\ conn[ws] = "open"
    /\ connectedBridges' = MapSet(connectedBridges, id,
                                  [id |-> id, connection |-> ws, lastSeen |-> now])
    /\ bridgeId' = [bridgeId EXCEPT ![ws] = id]
    /\ sent' = broadcastToUsers({c \in Conns : isBridge(c)} \cup {ws}, "bridge_available", id)
    /\ UNCHANGED <<program, deviceVars, appVars, awaiting, sessionVars, conn, now, nextSweep, nextRelayCmd, commands,
                   cmdTimeouts, listeners, toBridge, fromBridge>>

\* handleWebSocketMessage, default case: a message whose type has no case of the
\* switch (pong, bridge_status, arduino_response, command_result, command_error)
\* is answered with an error and changes nothing
handleUnknownMessage(ws, type) ==
    /\ program = "relay"
    /\ conn[ws] = "open"
    /\ type \in BridgeTraffic
    /\ sent' = Reply(ws, "error", "Unknown message type")
    /\ UNCHANGED <<program, deviceVars, appVars, awaiting, sessionVars, bridgeId, conn, connectedBridges, now, nextSweep,
                   nextRelayCmd, commands, cmdTimeouts, listeners, toBridge,
                   fromBridge>>

\* the catch block of ws.on('message'): JSON.parse has thrown
handleMalformedMessage(ws) ==
    /\ program = "relay"
    /\ conn[ws] = "open"
    /\ sent' = Reply(ws, "error", "Invalid message format")
    /\ UNCHANGED <<program, deviceVars, appVars, awaiting, sessionVars, bridgeId, conn,
                   connectedBridges, now, nextSweep, nextRelayCmd, commands, cmdTimeouts,
                   listeners, toBridge, fromBridge>>

\* uuidv4(): taken to return an identifier it has not returned before
NewRelayCommandId == nextRelayCmd + 1

\* bridge.connection.send on a transport that is not open: the frame is not sent;
\* depending on the version of ws the call throws or returns without error
SendOutcomes(ws) == IF conn[ws] = "open" THEN {"sent"} ELSE {"thrown", "dropped"}

\* String.prototype.toUpperCase on the command names that occur
toUpperCase(name) ==
    CASE name = "ledBlink" -> "LEDBLINK"
      [] name = "led_blink" -> "LED_BLINK"
      [] OTHER -> name

\* executeArduinoFunction; the caller has checked that the bridge entry exists
executeArduinoFunction(id, functionName, args) ==
    LET bridge == MapGet(connectedBridges, id)
        commandId == NewRelayCommandId
        c == Len(commands) + 1
    IN  \E outcome \in SendOutcomes(bridge.connection) :
          /\ nextRelayCmd' = nextRelayCmd + 1
          /\ cmdTimeouts' = cmdTimeouts \cup {c}
          /\ listeners' = listeners \cup
                {[ws |-> bridge.connection, commandId |-> commandId, req |-> c]}
          /\ toBridge' = IF outcome = "sent"
                         THEN toBridge \cup {[ws |-> bridge.connection, id |-> commandId,
                                              command |-> toUpperCase(functionName),
                                              params |-> args]}
                         ELSE toBridge
          /\ commands' = Append(commands,
                [id |-> commandId, ws |-> bridge.connection,
                 promise |-> IF outcome = "thrown" THEN "rejected:send" ELSE "pending"])

\* handleArduinoCommand up to its await; without a bridge entry the sender gets
\* a command_error and nothing else happens; when the send to the bridge throws,
\* the catch block answers at once; otherwise the handler is suspended
handleArduinoCommand(ws, command, params, id) ==
    /\ program = "relay"
    /\ conn[ws] = "open"
    /\ IF id = NoBridge \/ ~MapHas(connectedBridges, id)
       THEN /\ sent' = Reply(ws, "command_error", "No Arduino bridge connected")
            /\ UNCHANGED <<nextRelayCmd, commands, cmdTimeouts, listeners, toBridge,
                           awaiting>>
       ELSE /\ executeArduinoFunction(id, command, params)
            /\ IF commands'[Len(commands')].promise = "pending"
               THEN /\ awaiting' =
                          IF awaiting.followed
                          THEN [awaiting EXCEPT
                                  !.handlers = @ \cup {[req |-> Len(commands'), ws |-> ws]}]
                          ELSE awaiting
                    /\ sent' = EmptyBag
               ELSE /\ awaiting' = awaiting
                    /\ sent' = Reply(ws, "command_error", "send failed")
    /\ UNCHANGED <<program, deviceVars, appVars, sessionVars, bridgeId, conn, connectedBridges, now, nextSweep, fromBridge>>

\* ws.send of a handler that has been resumed: the connection may have closed
ReplyIfOpen(ws, type, about) ==
    IF conn[ws] = "open" THEN Reply(ws, type, about) ELSE EmptyBag

\* the handlers of awaiting whose call is in reqs are resumed: each sends the
\* outcome to the connection its message came from; others is what the step
\* sends besides
Resume(reqs, type, about, others) ==
    LET resumed == {a \in awaiting.handlers :
                       a.req \in reqs /\ commands[a.req].promise = "pending"}
    IN  /\ awaiting' = [awaiting EXCEPT !.handlers = @ \ resumed]
        /\ sent' = others (+) BagUnion({ReplyIfOpen(a.ws, type, about) : a \in resumed})

\* the setTimeout callback of call c of executeArduinoFunction; the rejection
\* resumes the handler that awaits the call
RelayCommandTimeout(c) ==
    /\ program = "relay"
    /\ c \in cmdTimeouts
    /\ cmdTimeouts' = cmdTimeouts \ {c}
    /\ commands' = SettleRequest(commands, c, "rejected:timeout")
    /\ Resume({c}, "command_error", "Command timeout", EmptyBag)
    /\ UNCHANGED <<program, deviceVars, appVars, sessionVars, bridgeId, conn, connectedBridges, now, nextSweep,
                   nextRelayCmd, listeners, toBridge, fromBridge>>

\* faulty variant of the test of responseHandler: the commandId of the frame is not compared
MatchesAnyCommand(l, frame) ==
    /\ l.ws = frame.ws
    /\ frame.type \in {"command_result", "command_error"}

\* the test of responseHandler l on a frame of its bridge transport
Matches(l, frame) ==
    /\ l.ws = frame.ws
    /\ frame.type \in {"command_result", "command_error"}
    /\ frame.commandId = l.commandId

\* a frame of a bridge arrives: the responseHandler listeners of the transport run;
\* a listener that matches clears its timeout, removes itself and settles its Promise
BridgeFrame(frame) ==
    LET hit == {l \in listeners : Matches(l, frame)}
        reqs == {l.req : l \in hit}
    IN  /\ program = "relay"
        /\ frame \in fromBridge
        /\ conn[frame.ws] = "open"
        /\ fromBridge' = fromBridge \ {frame}
        /\ Resume(reqs, frame.type, frame.commandId,
                  Reply(frame.ws, "error", "Unknown message type"))
        /\ cmdTimeouts' = cmdTimeouts \ reqs
        /\ listeners' = listeners \ hit
        /\ commands' = [c \in DOMAIN commands |->
              IF c \in reqs
              THEN [commands[c] EXCEPT !.promise =
                       Settle(@, IF frame.type = "command_result"
                                 THEN "resolved" ELSE "rejected:error")]
              ELSE commands[c]]
        /\ UNCHANGED <<program, deviceVars, appVars, sessionVars, bridgeId, conn, connectedBridges, now, nextSweep,
                       nextRelayCmd, toBridge>>

\* faulty variant of the staleness test: an entry aged exactly the threshold counts as stale
StaleInclusive(bridge, t) == t - bridge.lastSeen >= StaleMs

\* the bridge heartbeat interval
Stale(bridge, t) == t - bridge.lastSeen > StaleMs

BridgeHeartbeat ==
    LET stale == {e.id : e \in {b \in connectedBridges : Stale(b, now)}} IN
    /\ program = "relay"
    /\ now >= nextSweep
    /\ nextSweep' = nextSweep + SweepMs
    /\ connectedBridges' = MapDelete(connectedBridges, stale)
    /\ sent' = BagUnion({broadcastToUsers({c \in Conns : isBridge(c)},
                                          "bridge_disconnected", id) : id \in stale})
    /\ UNCHANGED <<program, deviceVars, appVars, awaiting, sessionVars, bridgeId, conn, now, nextRelayCmd, commands,
                   cmdTimeouts, listeners, toBridge, fromBridge>>

\* time passes; a due interval runs first
Tick ==
    /\ program = "relay"
    /\ now < nextSweep
    /\ now + ClockStep <= MaxNow
    /\ now' = now + ClockStep
    /\ sent' = EmptyBag
    /\ UNCHANGED <<program, deviceVars, appVars, awaiting, sessionVars, bridgeId, conn, connectedBridges, nextSweep,
                   nextRelayCmd, commands, cmdTimeouts, listeners, toBridge,
                   fromBridge>>

(***************************************************************************)
(* The bridge behind a transport: handleCloudMessage, case                 *)
(* 'arduino_command'.  sendArduinoCommand writes the command and the       *)
(* parameters of the message, as they are, to the serial port of the       *)
(* bridge and the bridge answers command_result; or the port is not open   *)
(* or the write fails, and the bridge answers command_error.               *)
(***************************************************************************)
\* commandId = uuidv4() of the bridge is taken to be fresh, like NewCommandId
sendArduinoCommand(command, params, ok) ==
    IF ok
    THEN /\ nextCmd' = nextCmd + 1
         /\ wire' = Append(wire, Frame(NewCommandId, command, params))
    ELSE UNCHANGED <<nextCmd, wire>>

\* the device end of the bridge's serial port is not followed here: wire keeps
\* the frames the bridge has written
handleCloudMessage(message, ok) ==
    /\ program = "relay"
    /\ message \in toBridge
    /\ conn[message.ws] = "open"
    /\ toBridge' = toBridge \ {message}
    /\ sent' = EmptyBag
    /\ sendArduinoCommand(message.command, message.params, ok)
    /\ fromBridge' = fromBridge \cup
          {[ws |-> message.ws,
            type |-> IF ok THEN "command_result" ELSE "command_error",
            commandId |-> message.id]}
    /\ UNCHANGED <<program, deviceVars, awaiting, arduinoOpen, connected, requests, responseQueue,
                   timeouts, writePending, serialIn, lastResponse, lastCall,
                   turn, sessionVars, bridgeId, conn, connectedBridges, now, nextSweep,
                   nextRelayCmd, commands, cmdTimeouts, listeners>>

(***************************************************************************)
(* The Session Registry of the relay and its chat messages.  A credential  *)
(* is the sequence of its characters; a missing one is the empty sequence. *)
(***************************************************************************)
NoKey == << >>

AIza == <<"A", "I", "z", "a">>

\* the apiKey of the set_api_key messages
ApiKeys == {NoKey, AIza \o <<"1">>, <<"x">> \o AIza, <<"A", "I", "z">>}

\* faulty variant of the format check: String.prototype.includes
includes(str, searchString) ==
    \E k \in 0..(Len(str) - Len(searchString)) :
        \A i \in 1..Len(searchString) : str[k + i] = searchString[i]

\* String.prototype.startsWith
startsWith(str, searchString) ==
    /\ Len(str) >= Len(searchString)
    /\ \A i \in 1..Len(searchString) : str[i] = searchString[i]

handleApiKeySetup(ws, apiKey) ==
    /\ program = "relay"
    /\ conn[ws] = "open"
    /\ IF apiKey = NoKey \/ ~startsWith(apiKey, AIza)
       THEN /\ sent' = Reply(ws, "api_key_error", "Invalid API key format")
            /\ UNCHANGED userSessions
       ELSE /\ userSessions' = MapSet(userSessions, ws, [id |-> ws, apiKey |-> apiKey])
            /\ sent' = Reply(ws, "api_key_success", "API key configured successfully")
    /\ UNCHANGED <<program, deviceVars, appVars, awaiting, chatSessions, chat, bridgeId, conn, connectedBridges,
                   now, nextSweep, nextRelayCmd, commands, cmdTimeouts, listeners,
                   toBridge, fromBridge>>

\* handleChatMessage up to its first await; a connection sends its next chat
\* message when the previous one has been answered
handleChatMessage(ws, id) ==
    /\ program = "relay"
    /\ conn[ws] = "open"
    /\ chat[ws].pc = "idle"
    /\ IF ~MapHas(userSessions, ws)
       THEN /\ sent' = Reply(ws, "chat_error", "Please configure your API key first")
            /\ UNCHANGED <<chatSessions, chat>>
       ELSE IF id = NoBridge \/ ~MapHas(connectedBridges, id)
       THEN /\ sent' = Reply(ws, "chat_error", "No Arduino bridge connected")
            /\ UNCHANGED <<chatSessions, chat>>
       ELSE /\ sent' = EmptyBag
            /\ chatSessions' = chatSessions \cup {ws}
            /\ chat' = [chat EXCEPT ![ws] = [NoChat EXCEPT !.pc = "model", !.bridge = id]]
    /\ UNCHANGED <<program, deviceVars, appVars, awaiting, userSessions, bridgeId, conn, connectedBridges,
                   now, nextSweep, nextRelayCmd, commands, cmdTimeouts, listeners,
                   toBridge, fromBridge>>

\* the for loop of handleChatMessage from the call at the head of calls up to the
\* next await: executeArduinoFunction throws for every call while the bridge has
\* no registry entry; after the last call the function responses go to the model
RelayRun(ws, calls, results) ==
    LET id == chat[ws].bridge IN
    IF calls # << >> /\ MapHas(connectedBridges, id)
    THEN /\ executeArduinoFunction(id, Head(calls).command, Head(calls).params)
         /\ chat' = [chat EXCEPT ![ws] = [pc |-> "bridge", bridge |-> id,
                                          calls |-> Tail(calls),
                                          req |-> Len(commands) + 1,
                                          results |-> results]]
    ELSE /\ chat' = [chat EXCEPT ![ws] = [NoChat EXCEPT !.pc = "model", !.bridge = id]]
         /\ UNCHANGED <<nextRelayCmd, commands, cmdTimeouts, listeners, toBridge>>

\* await chatSession.sendMessage(...) settles: rejected, or a response with the
\* function calls of the model, or a response with none
ModelReplies(ws, calls, ok) ==
    /\ program = "relay"
    /\ chat[ws].pc = "model"
    /\ IF ~ok
       THEN /\ sent' = ReplyIfOpen(ws, "chat_error", "AI processing failed")
            /\ chat' = [chat EXCEPT ![ws] = NoChat]
            /\ UNCHANGED <<nextRelayCmd, commands, cmdTimeouts, listeners, toBridge>>
       ELSE IF calls = << >>
       THEN /\ sent' = ReplyIfOpen(ws, "chat_response", "text")
            /\ chat' = [chat EXCEPT ![ws] = NoChat]
            /\ UNCHANGED <<nextRelayCmd, commands, cmdTimeouts, listeners, toBridge>>
       ELSE /\ sent' = EmptyBag
            /\ RelayRun(ws, calls, << >>)
    /\ UNCHANGED <<program, deviceVars, appVars, awaiting, userSessions, chatSessions, bridgeId, conn,
                   connectedBridges, now, nextSweep, fromBridge>>

\* await executeArduinoFunction(...) settles: one function response is pushed
ChatResumes(ws) ==
    /\ program = "relay"
    /\ chat[ws].pc = "bridge"
    /\ commands[chat[ws].req].promise # "pending"
    /\ sent' = EmptyBag
    /\ RelayRun(ws, chat[ws].calls,
                Append(chat[ws].results,
                       IF commands[chat[ws].req].promise = "resolved"
                       THEN "result" ELSE "error"))
    /\ UNCHANGED <<program, deviceVars, appVars, awaiting, userSessions, chatSessions, bridgeId, conn,
                   connectedBridges, now, nextSweep, fromBridge>>

RelayStart ==
    /\ conn = [c \in Conns |-> "new"]
    /\ bridgeId = [c \in Conns |-> NoBridge]
    /\ connectedBridges = {}
    /\ now = 0
    /\ nextSweep = SweepMs
    /\ nextRelayCmd = 0
    /\ commands = << >>
    /\ cmdTimeouts = {}
    /\ listeners = {}
    /\ toBridge = {}
    /\ fromBridge = {}
    /\ sent = EmptyBag
    /\ userSessions = {}
    /\ chatSessions = {}
    /\ chat = [c \in Conns |-> NoChat]

\* arduino_command messages of a user of the relay
RelayCommands ==
    {[command |-> "led_blink", params |-> [rate |-> 49]]}

\* function calls of one response of the model to a chat message of the relay
RelayModelTurns ==
    {<< >>, <<[command |-> "ledOn", params |-> NoParams]>>}

(***************************************************************************)
(* The control app.                                                        *)
(***************************************************************************)
AppStart ==
    /\ arduinoOpen = FALSE
    /\ connected = FALSE
    /\ nextCmd = 0
    /\ requests = << >>
    /\ responseQueue = {}
    /\ timeouts = {}
    /\ writePending = {}
    /\ wire = << >>
    /\ serialIn = << >>
    /\ lastResponse = NoResponse
    /\ lastCall = NoCall
    /\ turn = NoTurn

(***************************************************************************)
(* app.post('/chat') of the control app, with GOOGLE_API_KEY configured.   *)
(* turn.asked holds the function calls of the latest response of the       *)
(* model, turn.calls those of them the for loop has not reached,           *)
(* turn.results the function responses pushed so far, turn.rounds the      *)
(* passes through the while loop, turn.reply the HTTP status sent.         *)
(***************************************************************************)
\* the keys of functions that ArduinoController above covers
functions ==
    {"ledOn", "ledOff", "ledBlink", "ledFade", "setPinMode", "digitalWrite", "digitalRead",
     "analogWrite", "analogRead", "servoWrite", "stopEffects", "resetArduino", "getStatus"}

FunctionResponse(name, kind) == [name |-> name, kind |-> kind]

\* the for loop up to the first call that reaches arduinoPort.write: a name
\* that functions does not have is passed over; a call that throws, or finds the
\* port closed, pushes an error response
RECURSIVE Pass(_, _)
Pass(calls, results) ==
    IF calls = << >>
    THEN [calls |-> << >>, results |-> results]
    ELSE LET functionCall == Head(calls) IN
         IF functionCall.op \notin functions
         THEN Pass(Tail(calls), results)
         ELSE IF ArduinoController(functionCall.op, functionCall.args).throws \/ ~arduinoOpen
         THEN Pass(Tail(calls),
                   Append(results, FunctionResponse(functionCall.op, "error")))
         ELSE [calls |-> calls, results |-> results]

\* the while loop from the call at the head of calls up to the next await, or to
\* res.json when no function response was pushed
ChatRun(asked, calls, results, rounds) ==
    LET at == Pass(calls, results) IN
    IF at.calls # << >>
    THEN /\ ControllerCall(Head(at.calls).op, Head(at.calls).args)
         /\ turn' = [pc |-> "call", asked |-> asked, calls |-> Tail(at.calls),
                     req |-> Len(requests) + 1, results |-> at.results,
                     rounds |-> rounds, reply |-> "none"]
    ELSE /\ turn' = IF at.results # << >>
                    THEN [pc |-> "model", asked |-> asked, calls |-> << >>, req |-> 0,
                          results |-> at.results, rounds |-> rounds, reply |-> "none"]
                    ELSE [NoTurn EXCEPT !.rounds = rounds, !.reply = "200"]
         /\ UNCHANGED <<program, deviceVars, relayVars, sessionVars, arduinoOpen, connected, nextCmd,
                        requests, responseQueue, timeouts, writePending, wire, serialIn,
                        lastResponse, lastCall>>

\* the request arrives; requests are handled one after the other
ChatPost ==
    /\ program = "app"
    /\ turn.pc = "idle"
    /\ IF ~connected
       THEN /\ turn' = [NoTurn EXCEPT !.reply = "503"]
            /\ UNCHANGED chatSessions
       ELSE /\ turn' = [NoTurn EXCEPT !.pc = "model"]
            /\ chatSessions' = chatSessions \cup {"default"}
    /\ UNCHANGED <<program, deviceVars, relayVars, userSessions, chat, arduinoOpen, connected, nextCmd,
                   requests, responseQueue, timeouts, writePending, wire, serialIn,
                   lastResponse, lastCall>>

\* await chat.sendMessage(...) settles: rejected, or a response with the
\* function calls of the model, or a response with none
ChatModelReplies(calls, ok) ==
    /\ program = "app"
    /\ turn.pc = "model"
    /\ IF ~ok \/ calls = << >>
       THEN /\ turn' = [NoTurn EXCEPT !.rounds = turn.rounds,
                                      !.reply = IF ok THEN "200" ELSE "500"]
            /\ UNCHANGED <<program, deviceVars, relayVars, sessionVars, arduinoOpen, connected, nextCmd,
                           requests, responseQueue, timeouts, writePending, wire, serialIn,
                           lastResponse, lastCall>>
       ELSE ChatRun(calls, calls, << >>, turn.rounds + 1)

\* await functionToCall.execute(args) settles: one function response is pushed
ChatCallSettles ==
    /\ program = "app"
    /\ turn.pc = "call"
    /\ requests[turn.req].promise # "pending"
    /\ ChatRun(turn.asked, turn.calls,
               Append(turn.results,
                      FunctionResponse(turn.asked[Len(turn.asked) - Len(turn.calls)].op,
                                       IF Resolved(requests[turn.req].promise)
                                       THEN "result" ELSE "error")),
               turn.rounds)

\* function calls of one response of the model to the chat request
ChatModelTurns ==
    {<< >>,
     <<Call("ledOn", NoParams), Call("servoWrite", [pin |-> 9, angle |-> 200])>>,
     <<Call("servoWrite", [pin |-> 9, angle |-> 200])>>,
     <<Call("ledOn", NoParams), Call("selfDestruct", NoParams)>>}

\* the firmware is not followed where the device is a stateless DeviceLoop, the
\* suspended command handlers of the relay only under SpecErrors
DeviceStart ==
    /\ fw = << >>
    /\ handles = << >>
    /\ mirror = << >>
    /\ cloud = << >>
    /\ awaiting = [followed |-> FALSE, handlers |-> {}]

InitApp == program = "app" /\ AppStart /\ RelayStart /\ DeviceStart

ClientCommand ==
    \E m \in DirectCommands :
        /\ nextCmd < MaxCmd
        /\ handleWebSocketMessage(m.command, m.params)

ModelCall ==
    \E c \in AppCalls :
        /\ nextCmd < MaxCmd
        /\ ControllerCall(c.op, c.args)
        /\ UNCHANGED turn

TimerFires == \E r \in timeouts : CommandTimeout(r)

WriteDone == \E r \in writePending, err \in BOOLEAN : WriteCallback(r, err)

NextApp ==
    \/ PortOpen
    \/ PortError
    \/ PortClose
    \/ ClientCommand
    \/ ModelCall
    \/ TimerFires
    \/ WriteDone
    \/ DeviceLoop
    \/ DeviceHeartbeat
    \/ handleArduinoResponse

SpecApp == InitApp /\ [][NextApp]_vars

(***************************************************************************)
(* The relay with its bridges.                                             *)
(***************************************************************************)
InitRelay == program = "relay" /\ AppStart /\ RelayStart /\ DeviceStart

Connect == \E ws \in Conns : Connection(ws)

Disconnect == \E ws \in Conns : Close(ws)

BridgeRegister == \E ws \in Conns, b \in BridgeIds : handleBridgeRegistration(ws, b)

UserCommand ==
    \E ws \in Conns, m \in RelayCommands, b \in BridgeIds \cup {NoBridge} :
        /\ nextRelayCmd < MaxRelayCmd
        /\ handleArduinoCommand(ws, m.command, m.params, b)

RelayTimerFires == \E c \in cmdTimeouts : RelayCommandTimeout(c)

BridgeHandles == \E m \in toBridge, ok \in BOOLEAN : handleCloudMessage(m, ok)

RelayReceives == \E f \in fromBridge : BridgeFrame(f)

\* the relay between two runs of the bridge heartbeat
NextRelay ==
    \/ Connect
    \/ Disconnect
    \/ BridgeRegister
    \/ UserCommand
    \/ RelayTimerFires
    \/ BridgeHandles
    \/ RelayReceives

SpecRelay == InitRelay /\ [][NextRelay]_vars

RegistryRegister ==
    \E ws \in Conns, b \in RegistryBridgeIds : handleBridgeRegistration(ws, b)

BridgeSends == \E ws \in Conns, t \in BridgeTraffic : handleUnknownMessage(ws, t)

ApiKeySetup == \E ws \in Conns, k \in ApiKeys : handleApiKeySetup(ws, k)

ChatMessage == \E ws \in Conns, b \in BridgeIds \cup {NoBridge} : handleChatMessage(ws, b)

ModelResponse ==
    \E ws \in Conns, calls \in RelayModelTurns, ok \in BOOLEAN :
        /\ calls # << >> => nextRelayCmd < MaxChatCmd
        /\ ModelReplies(ws, calls, ok)

ChatResume ==
    \E ws \in Conns :
        /\ chat[ws].calls # << >> => nextRelayCmd < MaxChatCmd
        /\ ChatResumes(ws)

\* the Session Registry and the chat messages of the relay, up to the timeout
\* of the first call a bridge leaves unanswered: the chat message goes on
\* after a call whose send failed
NextSessions ==
    \/ Connect
    \/ Disconnect
    \/ BridgeRegister
    \/ ApiKeySetup
    \/ ChatMessage
    \/ ModelResponse
    \/ ChatResume

SpecSessions == InitRelay /\ [][NextSessions]_vars

\* what the relay does with a chat message and with a direct command when it
\* arrives, under every state of the two registries
NextArrival ==
    \/ Connect
    \/ Disconnect
    \/ BridgeRegister
    \/ ApiKeySetup
    \/ ChatMessage
    \/ UserCommand

SpecArrival == InitRelay /\ [][NextArrival]_vars

\* the Bridge Registry under registration, close, the heartbeat interval and time
NextRegistry ==
    \/ Connect
    \/ Disconnect
    \/ RegistryRegister
    \/ BridgeSends
    \/ BridgeHeartbeat
    \/ Tick

SpecRegistry == InitRelay /\ [][NextRegistry]_vars

(***************************************************************************)
(* The Command Dispatcher applied to every input of CtlCalls.              *)
(***************************************************************************)
DispatcherCall ==
    \E c \in CtlCalls :
        /\ nextCmd < MaxCtlCalls
        /\ ControllerCall(c.op, c.args)
        /\ UNCHANGED turn

\* the dispatcher, the port and the device end of the serial transport
NextCtl ==
    \/ PortOpen
    \/ PortError
    \/ PortClose
    \/ DispatcherCall
    \/ DeviceLoop

SpecCtl == InitApp /\ [][NextCtl]_vars

(***************************************************************************)
(* The chat request of the control app with the Device Link under it.      *)
(***************************************************************************)
ChatModelResponse ==
    \E calls \in ChatModelTurns, ok \in BOOLEAN :
        /\ calls # << >> => (nextCmd < MaxCmd /\ turn.rounds < MaxRounds)
        /\ ChatModelReplies(calls, ok)

ChatCallDone ==
    /\ turn.calls # << >> => nextCmd < MaxCmd
    /\ ChatCallSettles

NextChat ==
    \/ PortOpen
    \/ PortClose
    \/ ChatPost
    \/ ChatModelResponse
    \/ ChatCallDone
    \/ TimerFires
    \/ WriteDone
    \/ DeviceLoop
    \/ handleArduinoResponse

SpecChat == InitApp /\ [][NextChat]_vars

(***************************************************************************)
(* Both correlation hops: the serial hop of the control app and the        *)
(* relay-to-bridge hop of the relay.                                       *)
(***************************************************************************)
Init == InitApp \/ InitRelay

Next == NextApp \/ NextRelay

Spec == Init /\ [][Next]_vars

(***************************************************************************)
(* The firmware with its state.  fw holds the globals of the sketch, the   *)
(* function-static variables of updateMorseEffect, the level of            *)
(* LED_BUILTIN (led, with ledSince, the time of its latest change), the    *)
(* characters in the serial receive buffer (rx), the frames printed by     *)
(* the latest pass of loop() (out), and the line processed last (last,     *)
(* done).  Effects are numbered as in the sketch: 0 blink, 1 fade,         *)
(* 2 morse, 3 pattern.  pinModes and digitalValues are the arrays of       *)
(* systemState; mode is the mode the hardware has each pin in, which       *)
(* pinMode() sets.  The level of a pin other than LED_BUILTIN, the         *)
(* analog values and the servo angles are not followed, and neither is     *)
(* what digitalRead and analogRead return.                                 *)
(***************************************************************************)
NoFrame == [id |-> NoId, command |-> "", params |-> NoParams, line |-> 0]

\* the state after setup(), which ends with delay(1000)
setup ==
    [millis |-> 1000, lastHeartbeat |-> 0, led |-> "LOW", ledSince |-> 0,
     ledState |-> FALSE, currentEffect |-> "none",
     effectsActive |-> [i \in 0..4 |-> FALSE],
     effectTimers |-> [i \in 0..4 |-> 0],
     effectCounters |-> [i \in 0..4 |-> 0],
     morseText |-> << >>, patternString |-> << >>,
     blinkRate |-> 500, fadeSpeed |-> 5, fadeValue |-> 0, fadeDirection |-> 1,
     charIndex |-> 0, morseIndex |-> 0, inSpace |-> FALSE, spaceType |-> 0,
     inputBuffer |-> [length |-> 0, frame |-> NoFrame], commandReady |-> FALSE,
     pinModes |-> [i \in 0..19 |-> "INPUT"],
     digitalValues |-> [i \in 0..19 |-> 0],
     mode |-> [i \in 0..19 |-> IF i = LED_BUILTIN THEN "OUTPUT" ELSE "INPUT"],
     servoAttached |-> [i \in 0..13 |-> FALSE],
     rx |-> << >>, out |-> << >>, last |-> NoFrame, done |-> 0, lines |-> 0]

morseCode ==
    [A |-> <<".", "-">>, B |-> <<"-", ".", ".", ".">>, C |-> <<"-", ".", "-", ".">>,
     D |-> <<"-", ".", ".">>, E |-> <<".">>, F |-> <<".", ".", "-", ".">>,
     G |-> <<"-", "-", ".">>, H |-> <<".", ".", ".", ".">>, I |-> <<".", ".">>,
     J |-> <<".", "-", "-", "-">>, K |-> <<"-", ".", "-">>, L |-> <<".", "-", ".", ".">>,
     M |-> <<"-", "-">>, N |-> <<"-", ".">>, O |-> <<"-", "-", "-">>,
     P |-> <<".", "-", "-", ".">>, Q |-> <<"-", "-", ".", "-">>, R |-> <<".", "-", ".">>,
     S |-> <<".", ".", ".">>, T |-> <<"-">>, U |-> <<".", ".", "-">>,
     V |-> <<".", ".", ".", "-">>, W |-> <<".", "-", "-">>, X |-> <<"-", ".", ".", "-">>,
     Y |-> <<"-", ".", "-", "-">>, Z |-> <<"-", "-", ".", ".">>]

\* digitalWrite(LED_BUILTIN, level) and analogWrite(LED_BUILTIN, fadeValue);
\* level is "HIGH", "LOW" or "PWM" (the duty cycle is fadeValue)
ledWrite(f, level) ==
    [f EXCEPT !.led = level, !.ledSince = IF f.led = level THEN @ ELSE f.millis]

\* faulty variant of stopAllEffects: the loop stops before the pattern effect
stopAllEffectsButPattern(f) ==
    [f EXCEPT !.effectsActive = [i \in 0..4 |-> IF i < 3 THEN FALSE ELSE @[i]],
              !.effectTimers = [i \in 0..4 |-> IF i < 3 THEN 0 ELSE @[i]],
              !.effectCounters = [i \in 0..4 |-> IF i < 3 THEN 0 ELSE @[i]]]

stopAllEffects(f) ==
    [f EXCEPT !.effectsActive = [i \in 0..4 |-> FALSE],
              !.effectTimers = [i \in 0..4 |-> 0],
              !.effectCounters = [i \in 0..4 |-> 0]]

\* faulty variant of executeCommand: LED_BLINK and LED_FADE store their
\* parameter before they check it
executeCommandStoresFirst(f, c) ==
    CASE c.command = "LED_BLINK" ->
            LET stored == [f EXCEPT !.blinkRate = Param(c.params, "rate", 500)]
            IN  IF ~processCommand(c.command, c.params) THEN stored
                ELSE [stored EXCEPT !.effectsActive[0] = TRUE, !.currentEffect = "blink",
                                    !.effectTimers[0] = f.millis]
      [] c.command = "LED_FADE" ->
            LET stored == [f EXCEPT !.fadeSpeed = Param(c.params, "speed", 5)]
            IN  IF ~processCommand(c.command, c.params) THEN stored
                ELSE [stored EXCEPT !.effectsActive[1] = TRUE, !.currentEffect = "fade",
                                    !.effectTimers[1] = f.millis]
      [] OTHER -> f

\* the executeCommand_* function processCommand calls for the frame c; a
\* function that returns false has changed nothing
executeCommand(f, c) ==
    LET \* String.toUpperCase on the characters that occur in the texts
        upperCase(text) ==
            [i \in 1..Len(text) |->
                CASE text[i] = "s" -> "S" [] text[i] = "o" -> "O" [] OTHER -> text[i]]
    IN
    IF ~processCommand(c.command, c.params) THEN f
    ELSE CASE c.command = "LED_ON" ->
                stopAllEffects([ledWrite(f, "HIGH") EXCEPT
                                   !.ledState = TRUE, !.currentEffect = "on"])
           [] c.command = "LED_OFF" ->
                stopAllEffects([ledWrite(f, "LOW") EXCEPT
                                   !.ledState = FALSE, !.currentEffect = "off"])
           [] c.command = "LED_BLINK" ->
                [f EXCEPT !.blinkRate = Param(c.params, "rate", 500),
                          !.effectsActive[0] = TRUE, !.currentEffect = "blink",
                          !.effectTimers[0] = f.millis]
           [] c.command = "LED_FADE" ->
                [f EXCEPT !.fadeSpeed = Param(c.params, "speed", 5),
                          !.effectsActive[1] = TRUE, !.currentEffect = "fade",
                          !.effectTimers[1] = f.millis]
           [] c.command = "LED_MORSE" ->
                [f EXCEPT !.morseText = upperCase(Param(c.params, "text", << >>)),
                          !.effectsActive[2] = TRUE, !.currentEffect = "morse",
                          !.effectTimers[2] = f.millis, !.effectCounters[2] = 0]
           [] c.command = "LED_PATTERN" ->
                [f EXCEPT !.patternString = Param(c.params, "pattern", << >>),
                          !.effectsActive[3] = TRUE, !.currentEffect = "pattern",
                          !.effectTimers[3] = f.millis, !.effectCounters[3] = 0]
           [] c.command = "PIN_MODE" ->
                LET pin == Param(c.params, "pin", -1)
                    mode == Param(c.params, "mode", "")
                IN  [f EXCEPT !.mode[pin] = mode, !.pinModes[pin] = mode]
           [] c.command = "DIGITAL_WRITE" ->
                LET pin == Param(c.params, "pin", -1)
                    value == Param(c.params, "value", -1)
                    written == IF pin = LED_BUILTIN
                               THEN ledWrite(f, IF value # 0 THEN "HIGH" ELSE "LOW")
                               ELSE f
                IN  [written EXCEPT !.digitalValues[pin] = value]
           [] c.command = "SERVO_WRITE" ->
                [f EXCEPT !.servoAttached[Param(c.params, "pin", -1)] = TRUE]
           [] c.command = "STOP_EFFECTS" -> stopAllEffects(f)
           [] c.command = "RESET" ->
                [ledWrite(stopAllEffects(f), "LOW") EXCEPT
                    !.ledState = FALSE,
                    !.mode = [i \in 0..19 |-> "INPUT"],
                    !.pinModes = [i \in 0..19 |-> "INPUT"],
                    !.digitalValues = [i \in 0..19 |-> 0],
                    !.servoAttached = [i \in 0..13 |-> FALSE],
                    !.currentEffect = "none"]
           \* PING, ANALOG_WRITE, and the two reads, whose values are not followed
           [] OTHER -> f

updateMorseEffect(f, currentTime) ==
    IF ~(currentTime - f.effectTimers[2] >= 100) THEN f
    ELSE
      LET elapsed == currentTime - f.effectTimers[2]
          g == IF f.inSpace
               THEN LET dark == [ledWrite(f, "LOW") EXCEPT !.ledState = FALSE]
                    IN  IF \/ (f.spaceType = 1 /\ elapsed >= 300)
                           \/ (f.spaceType = 2 /\ elapsed >= 700)
                        THEN [dark EXCEPT !.inSpace = FALSE, !.charIndex = @ + 1,
                                          !.morseIndex = 0]
                        ELSE dark
               ELSE LET h == IF f.charIndex >= Len(f.morseText)
                             THEN [f EXCEPT !.charIndex = 0, !.morseIndex = 0]
                             ELSE f
                        \* charAt gives the character 0 outside the text
                        currentChar == IF h.charIndex < Len(h.morseText)
                                       THEN h.morseText[h.charIndex + 1] ELSE "nul"
                    IN  IF currentChar = " "
                        THEN [h EXCEPT !.inSpace = TRUE, !.spaceType = 2,
                                       !.effectTimers[2] = currentTime]
                        ELSE IF currentChar \in DOMAIN morseCode
                        THEN LET morse == morseCode[currentChar] IN
                             IF h.morseIndex < Len(morse)
                             THEN LET lit == [ledWrite(h, "HIGH") EXCEPT
                                                 !.ledState = TRUE]
                                      duration ==
                                          IF morse[h.morseIndex + 1] = "."
                                          THEN 100 ELSE 300
                                  IN  IF elapsed >= duration
                                      THEN [lit EXCEPT
                                              !.morseIndex = @ + 1,
                                              !.inSpace = (h.morseIndex + 1 >= Len(morse)),
                                              !.spaceType =
                                                  IF h.morseIndex + 1 >= Len(morse)
                                                  THEN 1 ELSE @,
                                              !.effectTimers[2] = currentTime]
                                      ELSE lit
                             ELSE h
                        ELSE [h EXCEPT !.charIndex = @ + 1]
      IN  IF ~g.inSpace THEN [g EXCEPT !.effectTimers[2] = currentTime] ELSE g

\* faulty variant of updateEffects: the fade step is not held at 0 and 255
updateEffectsWithoutBounds(f) ==
    IF f.effectsActive[1] /\ f.millis - f.effectTimers[1] >= (100 \div f.fadeSpeed)
    THEN [ledWrite(f, "PWM") EXCEPT !.fadeValue = @ + f.fadeDirection * f.fadeSpeed,
                                    !.effectTimers[1] = f.millis]
    ELSE f

updateEffects(f) ==
    LET currentTime == f.millis
        blink == IF f.effectsActive[0] /\ currentTime - f.effectTimers[0] >= f.blinkRate
                 THEN [ledWrite(f, IF ~f.ledState THEN "HIGH" ELSE "LOW") EXCEPT
                          !.ledState = ~f.ledState, !.effectTimers[0] = currentTime]
                 ELSE f
        fade == IF blink.effectsActive[1]
                   /\ currentTime - blink.effectTimers[1] >= (100 \div blink.fadeSpeed)
                THEN LET v == blink.fadeValue + blink.fadeDirection * blink.fadeSpeed
                     IN  [ledWrite(blink, "PWM") EXCEPT
                            !.fadeValue = IF v <= 0 THEN 0 ELSE IF v >= 255 THEN 255 ELSE v,
                            !.fadeDirection = IF v <= 0 THEN 1
                                              ELSE IF v >= 255 THEN -1 ELSE @,
                            !.effectTimers[1] = currentTime]
                ELSE blink
        morse == IF fade.effectsActive[2] THEN updateMorseEffect(fade, currentTime)
                 ELSE fade
    IN  IF morse.effectsActive[3] /\ currentTime - morse.effectTimers[3] >= 100
        THEN IF morse.effectCounters[3] < Len(morse.patternString)
             THEN LET ledState == morse.patternString[morse.effectCounters[3] + 1] = "1"
                  IN  [ledWrite(morse, IF ledState THEN "HIGH" ELSE "LOW") EXCEPT
                         !.ledState = ledState, !.effectCounters[3] = @ + 1,
                         !.effectTimers[3] = currentTime]
             ELSE [morse EXCEPT !.effectCounters[3] = 0,
                                !.effectTimers[3] = currentTime]
        ELSE morse

\* rx holds the characters that have arrived, in pieces: a newline, a command
\* text, or other characters that hold neither "id":" nor "command":" .
\* inputBuffer is kept as its length and the first command text in it, which
\* is the one the indexOf calls of processCommand find.  The inputs never
\* let the 501st character fall inside a command text.
RECURSIVE readSerialInput(_)
readSerialInput(f) ==
    IF f.rx = << >> THEN f
    ELSE LET piece == Head(f.rx) IN
         IF piece.kind = "newline"
         THEN [f EXCEPT !.rx = Tail(@), !.commandReady = TRUE]
         ELSE IF f.inputBuffer.length + piece.chars > 500
         THEN LET rest == f.inputBuffer.length + piece.chars - 501
              IN  [f EXCEPT !.rx = IF rest = 0 THEN Tail(@)
                                   ELSE <<[piece EXCEPT !.chars = rest]>> \o Tail(@),
                            !.inputBuffer = [length |-> 0, frame |-> NoFrame],
                            !.out = Append(@, sendResponse(NoId, FALSE, "error"))]
         ELSE readSerialInput(
                [f EXCEPT !.rx = Tail(@),
                          !.inputBuffer =
                              [length |-> @.length + piece.chars,
                               frame |-> IF @.frame = NoFrame THEN piece.frame
                                         ELSE @.frame]])

\* one pass of loop(); TickMs is the time from one pass to the next
loop(until) ==
    /\ program = "firmware"
    /\ fw.millis + TickMs <= until
    /\ LET read == readSerialInput([fw EXCEPT !.millis = @ + TickMs, !.out = << >>])
           c == read.inputBuffer.frame
           processed ==
               IF read.commandReady
               THEN [executeCommand(read, c) EXCEPT
                        !.out = Append(@, DeviceReply(c)),
                        !.last = c, !.done = @ + 1,
                        !.inputBuffer = [length |-> 0, frame |-> NoFrame],
                        !.commandReady = FALSE]
               ELSE read
           updated == updateEffects(processed)
       IN  fw' = IF updated.millis - updated.lastHeartbeat > 5000
                 THEN [updated EXCEPT !.out = Append(@, sendStatusUpdate),
                                      !.lastHeartbeat = updated.millis]
                 ELSE updated
    /\ UNCHANGED <<program, handles, mirror, cloud, appVars, relayVars, sessionVars>>

\* the host writes a line to the serial port: l.filler other characters, then
\* a command text of 60 characters, then the newline
SerialWrite(l, max) ==
    /\ program = "firmware"
    /\ fw.lines < max
    /\ fw' = [fw EXCEPT
                !.lines = @ + 1,
                !.rx = @ \o (IF l.filler = 0 THEN << >>
                             ELSE <<[kind |-> "other", chars |-> l.filler,
                                     frame |-> NoFrame]>>)
                         \o <<[kind |-> "command", chars |-> 60,
                               frame |-> [id |-> fw.lines + 1, command |-> l.command,
                                          params |-> l.params,
                                          line |-> l.filler + 60]],
                              [kind |-> "newline", chars |-> 1, frame |-> NoFrame]>>]
    /\ UNCHANGED <<program, handles, mirror, cloud, appVars, relayVars, sessionVars>>

FwLines ==
    {[filler |-> 0, command |-> c, params |-> NoParams] :
        c \in {"LED_ON", "LED_OFF", "STOP_EFFECTS", "RESET", "STATUS"}}
    \cup {[filler |-> 0, command |-> "LED_BLINK", params |-> [rate |-> 50]],
          [filler |-> 0, command |-> "LED_FADE", params |-> [speed |-> 5]],
          [filler |-> 0, command |-> "LED_MORSE", params |-> [text |-> <<"s", "o", "s">>]],
          [filler |-> 0, command |-> "LED_PATTERN", params |-> [pattern |-> <<"1", "0">>]],
          [filler |-> 501, command |-> "LED_ON", params |-> NoParams]}

EffectLines ==
    {[filler |-> 0, command |-> "LED_MORSE", params |-> [text |-> <<"S", "O", "S">>]],
     [filler |-> 0, command |-> "LED_PATTERN",
      params |-> [pattern |-> <<"1", "0", "1", "0", "1", "0">>]]}

InitFirmware ==
    /\ program = "firmware"
    /\ fw = setup
    /\ handles = << >>
    /\ mirror = << >>
    /\ cloud = << >>
    /\ awaiting = [followed |-> FALSE, handlers |-> {}]
    /\ AppStart
    /\ RelayStart

\* the firmware under any two lines of the host
NextFirmware ==
    \/ loop(MaxFwMillis)
    \/ \E l \in FwLines : SerialWrite(l, MaxFwLines)

SpecFirmware == InitFirmware /\ [][NextFirmware]_vars

\* the firmware left alone with one effect
NextEffect ==
    \/ loop(MaxEffectMillis)
    \/ \E l \in EffectLines : SerialWrite(l, MaxEffectLines)

SpecEffect == InitFirmware /\ [][NextEffect]_vars

(***************************************************************************)
(* Properties of the Device Link of the control app (SpecApp).             *)
(***************************************************************************)

\* C1: every Pending Request that sendCommand creates with expectResponse = true
\* is settled at most once, and only by a response with its identifier, by the
\* timeout or by a write failure; while it is pending its entry is in
\* responseQueue and its timer is armed (so the timer settles it if nothing
\* else does); from the moment it is settled its entry is absent from
\* responseQueue, and no later response, timer expiry or write callback gives
\* it a second outcome.
C1_SettledExactlyOnce ==
    /\ [](\A r \in DOMAIN requests :
            requests[r].expectResponse =>
              /\ requests[r].promise \in {"pending", "resolved:success", "resolved:failure",
                                          "rejected:timeout", "rejected:write"}
              /\ requests[r].promise = "pending" =>
                    /\ r \in timeouts
                    /\ \E e \in responseQueue : e.id = requests[r].id /\ e.req = r
              /\ requests[r].promise # "pending" =>
                    ~(\E e \in responseQueue : e.id = requests[r].id \/ e.req = r))
    /\ [][\A r \in DOMAIN requests :
            requests[r].promise # "pending" => requests'[r].promise = requests[r].promise]_vars

\* a request was resolved by its response; afterwards its timer fired and its
\* write callback ran
C1_Witness ==
    \E r \in DOMAIN requests :
        /\ requests[r].expectResponse
        /\ requests[r].promise = "resolved:success"
        /\ r \notin timeouts
        /\ r \notin writePending

\* C2: when handleArduinoResponse handles a response whose identifier is that
\* of a request that has timed out, no request is settled and responseQueue
\* stays as it is.
C2_LateResponseIsUnmatched ==
    [][(/\ handleArduinoResponse
        /\ \E r \in DOMAIN requests :
              /\ requests[r].id = Head(serialIn).id
              /\ requests[r].promise = "rejected:timeout")
       => UNCHANGED <<requests, responseQueue>>]_vars

\* the last response handled carries the identifier of a request that had
\* timed out before
C2_Witness ==
    \E r \in DOMAIN requests :
        /\ requests[r].promise = "rejected:timeout"
        /\ lastResponse.id = requests[r].id

\* C5 as the specification states it: a request is never resolved by a
\* response whose outcome is error (success = false); it is rejected.
C5_ErrorResponseRejects ==
    \A r \in DOMAIN requests : requests[r].promise # "resolved:failure"

(***************************************************************************)
(* Properties of both correlation hops (Spec).                             *)
(***************************************************************************)

\* C3: on the serial hop and on the relay-to-bridge hop no two outstanding
\* requests have the same correlation identifier, and the handling of a
\* response with identifier X leaves every request created with another
\* identifier as it is.
C3_CorrelationIsExact ==
    /\ [](/\ \A r1, r2 \in DOMAIN requests :
                (/\ r1 # r2
                 /\ requests[r1].promise = "pending"
                 /\ requests[r2].promise = "pending") => requests[r1].id # requests[r2].id
          /\ \A c1, c2 \in DOMAIN commands :
                (/\ c1 # c2
                 /\ commands[c1].promise = "pending"
                 /\ commands[c2].promise = "pending") => commands[c1].id # commands[c2].id)
    /\ [][/\ handleArduinoResponse =>
                \A r \in DOMAIN requests :
                    requests[r].id # Head(serialIn).id => requests'[r] = requests[r]
          /\ \A f \in fromBridge :
                BridgeFrame(f) =>
                    \A c \in DOMAIN commands :
                        commands[c].id # f.commandId => commands'[c] = commands[c]]_vars

\* two commands were outstanding on one bridge transport; the result of one of
\* them has been handled and the other is still pending with its listener
C3_Witness ==
    \E c1, c2 \in DOMAIN commands :
        /\ c1 # c2
        /\ commands[c1].ws = commands[c2].ws
        /\ commands[c1].promise = "resolved"
        /\ commands[c2].promise = "pending"
        /\ \E l \in listeners : l.req = c2 /\ l.commandId = commands[c2].id

(***************************************************************************)
(* Properties of the relay-to-bridge hop (SpecRelay).                      *)
(***************************************************************************)

\* C4 as the specification states it: a command rejected by the 10 s timeout
\* has no response listener left on the bridge transport.
C4_TimeoutRemovesListener ==
    \A l \in listeners : commands[l.req].promise # "rejected:timeout"

\* C9 as the specification states it: once the close of a transport has been
\* handled, no entry of the Bridge Registry refers to that transport.
C9_ClosedTransportIsUnregistered ==
    \A e \in connectedBridges : conn[e.connection] # "closed"

(***************************************************************************)
(* Properties of the Bridge Registry (SpecRegistry).                       *)
(***************************************************************************)

\* C8: the Bridge Registry never holds two entries for one bridge identity, and
\* after every bridge_register the entry of the identity has the transport of
\* that registration, whether or not the identity was registered before.
C8_OneEntryPerIdentity ==
    /\ [](\A e1, e2 \in connectedBridges : e1.id = e2.id => e1 = e2)
    /\ [][\A ws \in Conns, b \in RegistryBridgeIds :
            handleBridgeRegistration(ws, b) =>
                /\ \E e \in connectedBridges' : e.id = b
                /\ \A e \in connectedBridges' : e.id = b => e.connection = ws]_vars

\* two transports have registered the same identity before the first sweep
\* could remove it; the entry has the transport of the later registration
C8_Witness ==
    /\ now = 0
    /\ bridgeId[1] = "b1"
    /\ bridgeId[2] = "b1"
    /\ \E e \in connectedBridges : e.id = "b1" /\ e.connection = 2 /\ e.lastSeen = 0

\* C10: a run of the bridge heartbeat keeps exactly the entries whose
\* liveness timestamp is at most 30 s old and removes, in that run, every entry
\* whose timestamp is older; it adds none.
C10_SweepRemovesOlderThanThreshold ==
    [][BridgeHeartbeat =>
          /\ connectedBridges' \subseteq connectedBridges
          /\ \A e \in connectedBridges :
                e \in connectedBridges' <=> now - e.lastSeen <= StaleMs]_vars

\* the heartbeat has run at the present time and an entry aged exactly 30 s is
\* still registered
C10_Witness ==
    /\ nextSweep > now
    /\ \E e \in connectedBridges : now - e.lastSeen = StaleMs

\* C11 as the specification states it: every message of a registered bridge
\* refreshes the liveness timestamp of its registry entry, so the entry of a
\* bridge that keeps sending carries the time of its latest message.
C11_TrafficRefreshesLiveness ==
    [][\A ws \in Conns, t \in BridgeTraffic :
          handleUnknownMessage(ws, t) =>
              \A e \in connectedBridges :
                  e.connection = ws =>
                      \E r \in connectedBridges' : r.id = e.id /\ r.lastSeen = now]_vars

\* C16 as the specification states it: in every reachable state a transport is
\* the handle of at most one entry of the Bridge Registry, a second
\* bridge_register on a registered transport being refused.
C16_TransportHandlesOneEntry ==
    \A e1, e2 \in connectedBridges : e1.connection = e2.connection => e1 = e2

\* C17: an accepted bridge_register sends bridge_available, and the heartbeat
\* sends bridge_disconnected for each entry it removes, exactly once to every open
\* connection that has not registered as a bridge and not at all to a connection
\* that has, the registering one included; the heartbeat sends none for an entry
\* it keeps.
C17_OneNotificationPerUser ==
    /\ [][\A ws \in Conns, b \in RegistryBridgeIds :
            handleBridgeRegistration(ws, b) =>
                \A c \in Conns :
                    CopiesIn(Msg(c, "bridge_available", b), sent') =
                        IF conn'[c] = "open" /\ bridgeId'[c] = NoBridge THEN 1 ELSE 0]_vars
    /\ [][BridgeHeartbeat =>
            \A e \in connectedBridges, c \in Conns :
                CopiesIn(Msg(c, "bridge_disconnected", e.id), sent') =
                    IF /\ e \notin connectedBridges'
                       /\ conn'[c] = "open"
                       /\ bridgeId'[c] = NoBridge
                    THEN 1 ELSE 0]_vars

\* the heartbeat has just removed the entry of the bridge on connection 1 while
\* connection 1 and the user connection 2 are open: the one notification went to
\* connection 2
C17_Witness ==
    /\ conn[1] = "open"
    /\ bridgeId[1] = "b1"
    /\ conn[2] = "open"
    /\ bridgeId[2] = NoBridge
    /\ connectedBridges = {}
    /\ sent = Reply(2, "bridge_disconnected", "b1")

(***************************************************************************)
(* Properties of the Session Registry and of the arrival of chat messages  *)
(* and direct commands (SpecSessions, SpecArrival).                        *)
(***************************************************************************)

\* C12: every entry of userSessions and of chatSessions is keyed by a connection
\* that is open, userSessions holds at most one entry per connection, and the
\* handling of a close leaves no entry of the connection in either Map; a chat
\* message that goes on after the close of its connection creates none.
C12_EntriesBelongToOpenConnections ==
    /\ [](/\ \A e \in userSessions : conn[e.id] = "open"
          /\ \A k \in chatSessions : conn[k] = "open"
          /\ \A e1, e2 \in userSessions : e1.id = e2.id => e1 = e2)
    /\ [][\A ws \in Conns :
            (conn[ws] = "open" /\ conn'[ws] = "closed") =>
                /\ \A e \in userSessions' : e.id # ws
                /\ ws \notin chatSessions']_vars

\* connection 1 has closed while its chat message was suspended, and the chat
\* message has reached, or is still at, the await of a call to the bridge;
\* connection 2 is open and has both entries
C12_Witness ==
    /\ conn[1] = "closed"
    /\ chat[1].pc = "bridge"
    /\ MapHas(userSessions, 2)
    /\ 2 \in chatSessions

\* C13: a connection gets its userSessions entry only by a set_api_key message
\* whose apiKey starts with AIza and loses it only by its close; a set_api_key
\* message whose apiKey is missing or does not start with AIza is answered with
\* api_key_error to the sender alone and leaves userSessions as it was.
C13_ReadyOnlyByValidCredential ==
    [][\A ws \in Conns :
          /\ ((\A e \in userSessions : e.id # ws) /\ (\E e \in userSessions' : e.id = ws)) =>
                \E k \in ApiKeys :
                    /\ Len(k) >= 4
                    /\ SubSeq(k, 1, 4) = <<"A", "I", "z", "a">>
                    /\ handleApiKeySetup(ws, k)
          /\ ((\E e \in userSessions : e.id = ws) /\ (\A e \in userSessions' : e.id # ws)) =>
                (conn[ws] = "open" /\ conn'[ws] = "closed")
          /\ \A k \in ApiKeys :
                (/\ handleApiKeySetup(ws, k)
                 /\ ~(Len(k) >= 4 /\ SubSeq(k, 1, 4) = <<"A", "I", "z", "a">>)) =>
                    /\ userSessions' = userSessions
                    /\ sent' = SetToBag({Msg(ws, "api_key_error", "Invalid API key format")})]_vars

\* connection 1 is ready and its latest set_api_key message, a malformed one, has
\* just been answered with the error
C13_Witness ==
    /\ \E e \in userSessions : e.id = 1 /\ e.apiKey = <<"A", "I", "z", "a", "1">>
    /\ sent = SetToBag({Msg(1, "api_key_error", "Invalid API key format")})

\* C14 as the specification states it: a chat message or a direct command of a
\* connection that has no userSessions entry is answered with the
\* credential-required error and puts no frame on any bridge transport.
C14_NoSessionNoCommand ==
    [][\A ws \in Conns, b \in BridgeIds \cup {NoBridge} :
          (\A e \in userSessions : e.id # ws) =>
              /\ handleChatMessage(ws, b) =>
                    /\ sent' = SetToBag({Msg(ws, "chat_error",
                                             "Please configure your API key first")})
                    /\ toBridge' = toBridge
              /\ \A m \in RelayCommands :
                    handleArduinoCommand(ws, m.command, m.params, b) =>
                        /\ sent' = SetToBag({Msg(ws, "command_error",
                                                 "Please configure your API key first")})
                        /\ toBridge' = toBridge]_vars

\* C15 as the specification states it: a chat message or a direct command that
\* names no bridge, or a bridge that has no registry entry, is answered with the
\* bridge-unavailable error to its sender alone, changes neither registry and
\* puts no frame on a bridge transport or on the serial port.
C15_NoBridgeIsBridgeUnavailable ==
    [][\A ws \in Conns, b \in BridgeIds \cup {NoBridge} :
          (b = NoBridge \/ \A e \in connectedBridges : e.id # b) =>
              /\ handleChatMessage(ws, b) =>
                    /\ sent' = SetToBag({Msg(ws, "chat_error", "No Arduino bridge connected")})
                    /\ UNCHANGED <<connectedBridges, userSessions, toBridge, wire>>
              /\ \A m \in RelayCommands :
                    handleArduinoCommand(ws, m.command, m.params, b) =>
                        /\ sent' = SetToBag({Msg(ws, "command_error",
                                                 "No Arduino bridge connected")})
                        /\ UNCHANGED <<connectedBridges, userSessions, toBridge, wire>>]_vars

\* C15 as the relay has it: the direct command always, and the chat message of a
\* connection that has a userSessions entry, is answered with the
\* bridge-unavailable error to its sender alone; the chat message of a connection
\* without entry is answered with the credential-required error instead; in
\* each case neither registry changes and no frame is put on a bridge transport
\* or on the serial port.
C15_NoBridgeAfterCredentialCheck ==
    [][\A ws \in Conns, b \in BridgeIds \cup {NoBridge} :
          (b = NoBridge \/ \A e \in connectedBridges : e.id # b) =>
              /\ handleChatMessage(ws, b) =>
                    /\ sent' = SetToBag({Msg(ws, "chat_error",
                                    IF \E e \in userSessions : e.id = ws
                                    THEN "No Arduino bridge connected"
                                    ELSE "Please configure your API key first")})
                    /\ UNCHANGED <<connectedBridges, userSessions, toBridge, wire>>
              /\ \A m \in RelayCommands :
                    handleArduinoCommand(ws, m.command, m.params, b) =>
                        /\ sent' = SetToBag({Msg(ws, "command_error",
                                                 "No Arduino bridge connected")})
                        /\ UNCHANGED <<connectedBridges, userSessions, toBridge, wire>>]_vars

\* connection 2 has a userSessions entry, connection 1 is open as well, no bridge
\* is registered, and a chat message of connection 2 has just been answered with
\* the bridge-unavailable error
C15_Witness ==
    /\ conn[1] = "open"
    /\ connectedBridges = {}
    /\ \E e \in userSessions : e.id = 2
    /\ sent = SetToBag({Msg(2, "chat_error", "No Arduino bridge connected")})

(***************************************************************************)
(* Properties of the chat request of the control app (SpecChat).           *)
(***************************************************************************)

\* C18 as the specification states it: one chat request passes through the
\* loop of model responses and function calls at most 10 times before the reply
\* to the user is sent.
C18_AtMostTenRounds ==
    turn.rounds <= 10

\* C19 as the specification states it: the function responses sent back to the
\* model are one per function call the model asked for, in the order asked, each
\* a result or an error.
C19_OneResponsePerCall ==
    (turn.pc = "model" /\ turn.rounds > 0) =>
        /\ Len(turn.results) = Len(turn.asked)
        /\ \A i \in 1..Len(turn.asked) :
              /\ turn.results[i].name = turn.asked[i].op
              /\ turn.results[i].kind \in {"result", "error"}

\* C20 as the specification states it: while a function call of a model response
\* is awaiting its completion, no other call of that response is still waiting
\* to be started.
C20_CallsStartTogether ==
    (turn.pc = "call" /\ requests[turn.req].promise = "pending") => turn.calls = << >>

(***************************************************************************)
(* Properties of the Command Dispatcher (SpecCtl) and of the frames on the *)
(* serial transport (SpecApp).  ConstraintTable is the constraint table of *)
(* the specification, by command.                                          *)
(***************************************************************************)
ConstraintTable(command, params) ==
    CASE command = "LED_BLINK" -> params.rate >= 50 /\ params.rate <= 5000
      [] command = "LED_FADE" -> params.speed >= 1 /\ params.speed <= 10
      [] command = "PIN_MODE" ->
            /\ params.pin >= 0 /\ params.pin <= 19
            /\ params.mode \in {"INPUT", "OUTPUT", "INPUT_PULLUP"}
      [] command = "DIGITAL_WRITE" ->
            params.pin >= 0 /\ params.pin <= 19 /\ params.value \in {0, 1}
      [] command = "DIGITAL_READ" -> params.pin >= 0 /\ params.pin <= 19
      [] command = "ANALOG_WRITE" ->
            params.pin \in {3, 5, 6, 9, 10, 11} /\ params.value >= 0 /\ params.value <= 255
      [] command = "ANALOG_READ" -> params.pin >= 0 /\ params.pin <= 5
      [] command = "SERVO_WRITE" ->
            params.pin >= 2 /\ params.pin <= 13 /\ params.angle >= 0 /\ params.angle <= 180
      [] OTHER -> TRUE

\* the catalog command of an operation of the dispatcher
CommandOf(op) ==
    CASE op = "ledOn" -> "LED_ON"
      [] op = "ledOff" -> "LED_OFF"
      [] op = "ledBlink" -> "LED_BLINK"
      [] op = "ledFade" -> "LED_FADE"
      [] op = "setPinMode" -> "PIN_MODE"
      [] op = "digitalWrite" -> "DIGITAL_WRITE"
      [] op = "digitalRead" -> "DIGITAL_READ"
      [] op = "analogWrite" -> "ANALOG_WRITE"
      [] op = "analogRead" -> "ANALOG_READ"
      [] op = "servoWrite" -> "SERVO_WRITE"
      [] op = "stopEffects" -> "STOP_EFFECTS"
      [] op = "resetArduino" -> "RESET"
      [] op = "getStatus" -> "STATUS"

\* the value of the range lo..hi nearest to v
Nearest(lo, hi, v) == IF v < lo THEN lo ELSE IF v > hi THEN hi ELSE v

\* the parameters with the blink rate and the fade speed brought into range
Clamped(op, args) ==
    CASE op = "ledBlink" -> [rate |-> Nearest(50, 5000, args.rate)]
      [] op = "ledFade" -> [speed |-> Nearest(1, 10, args.speed)]
      [] OTHER -> args

\* the call writes exactly one frame, with this command and these parameters
Transmits(command, params) ==
    wire' = Append(wire, Frame(NewCommandId, command, params))

C7_WireFramesAreValidated ==
    \A i \in 1..Len(wire) :
        /\ wire[i].command \in COMMANDS
        /\ ConstraintTable(wire[i].command, wire[i].params)

\* C29 as the specification states it: the device answers every frame whose
\* parameters satisfy the constraint table, STATUS included, with a response
\* frame that carries the identifier of the frame and success = true.
C29_InRangeCommandAnswered ==
    [][(DeviceLoop /\ ConstraintTable(Head(wire).command, Head(wire).params)) =>
          LET r == serialIn'[Len(serialIn')]
          IN r.id = Head(wire).id /\ r.success]_vars

(***************************************************************************)
(* The relay with the handlers that report an error, the suspended calls   *)
(* of handleArduinoCommand followed.  Connection 1 is the one that         *)
(* registers as a bridge.                                                  *)
(***************************************************************************)
InitErrors ==
    /\ program = "relay"
    /\ AppStart
    /\ RelayStart
    /\ fw = << >>
    /\ handles = << >>
    /\ mirror = << >>
    /\ cloud = << >>
    /\ awaiting = [followed |-> TRUE, handlers |-> {}]

NextErrors ==
    \/ Connect
    \/ Disconnect
    \/ \E b \in BridgeIds : handleBridgeRegistration(1, b)
    \/ \E ws \in Conns : handleMalformedMessage(ws)
    \/ \E ws \in Conns : handleUnknownMessage(ws, "pong")
    \/ \E ws \in Conns, k \in {NoKey, AIza \o <<"1">>} :
          /\ Cardinality({e.id : e \in userSessions} \cup {ws}) <= MaxChats
          /\ handleApiKeySetup(ws, k)
    \/ \E ws \in Conns, b \in BridgeIds \cup {NoBridge} : handleChatMessage(ws, b)
    \/ \E ws \in Conns, ok \in BOOLEAN : ModelReplies(ws, << >>, ok)
    \/ \E ws \in Conns, m \in RelayCommands, b \in BridgeIds \cup {NoBridge} :
          /\ nextRelayCmd < MaxAwaited
          /\ handleArduinoCommand(ws, m.command, m.params, b)
    \/ RelayTimerFires

SpecErrors == InitErrors /\ [][NextErrors]_vars

(***************************************************************************)
(* The serial handles of the control app.  handles lists every SerialPort  *)
(* object initializeArduino has made; arduinoPort is the last of them.     *)
(* A handle is "opening" from open() to its 'open' or 'error' event,       *)
(* "open" from then on, "closing" from close() to its 'close' event, and   *)
(* "closed" after that; the device file is held while it is open or        *)
(* closing.                                                                *)
(***************************************************************************)
initializeArduino(portPath) ==
    LET arduinoPort == Len(handles)
        isOpen == arduinoPort > 0 /\ handles[arduinoPort].state = "open"
    IN  /\ program = "app"
        /\ Len(handles) < MaxOpens
        /\ handles' = Append(IF isOpen
                             THEN [handles EXCEPT ![arduinoPort].state = "closing"]
                             ELSE handles,
                             [path |-> portPath, state |-> "opening"])
        /\ arduinoOpen' = FALSE
        /\ UNCHANGED <<program, fw, mirror, cloud, relayVars, sessionVars, turn, connected, nextCmd,
                       requests, responseQueue, timeouts, writePending, wire, serialIn,
                       lastResponse, lastCall>>

\* 'open' of a handle; the device file is locked while another handle holds it
HandleOpens(h) ==
    /\ program = "app"
    /\ handles[h].state = "opening"
    /\ \A g \in DOMAIN handles :
          handles[g].path = handles[h].path => handles[g].state \notin {"open", "closing"}
    /\ handles' = [handles EXCEPT ![h].state = "open"]
    /\ connected' = TRUE
    /\ arduinoOpen' = IF h = Len(handles) THEN TRUE ELSE arduinoOpen
    /\ UNCHANGED <<program, fw, mirror, cloud, relayVars, sessionVars, turn, nextCmd, requests,
                   responseQueue, timeouts, writePending, wire, serialIn, lastResponse,
                   lastCall>>

\* 'error' of a handle whose open() failed
HandleFails(h) ==
    /\ program = "app"
    /\ handles[h].state = "opening"
    /\ handles' = [handles EXCEPT ![h].state = "closed"]
    /\ connected' = FALSE
    /\ UNCHANGED <<program, fw, mirror, cloud, relayVars, sessionVars, turn, arduinoOpen, nextCmd,
                   requests, responseQueue, timeouts, writePending, wire, serialIn,
                   lastResponse, lastCall>>

\* 'close' of a handle: close() has finished, or the device was unplugged
HandleCloses(h) ==
    /\ program = "app"
    /\ handles[h].state \in {"open", "closing"}
    /\ handles' = [handles EXCEPT ![h].state = "closed"]
    /\ connected' = FALSE
    /\ arduinoOpen' = IF h = Len(handles) THEN FALSE ELSE arduinoOpen
    /\ UNCHANGED <<program, fw, mirror, cloud, relayVars, sessionVars, turn, nextCmd, requests,
                   responseQueue, timeouts, writePending, wire, serialIn, lastResponse,
                   lastCall>>

NextPort ==
    \/ \E portPath \in {"/dev/ttyUSB0", "/dev/ttyACM0"} : initializeArduino(portPath)
    \/ \E h \in DOMAIN handles : HandleOpens(h)
    \/ \E h \in DOMAIN handles : HandleFails(h)
    \/ \E h \in DOMAIN handles : HandleCloses(h)

SpecPort == InitApp /\ [][NextPort]_vars

(***************************************************************************)
(* Properties of the firmware (SpecFirmware, SpecEffect).                  *)
(***************************************************************************)

\* no effect is active: every flag is false, every timer and counter is zero
Quiet(f) ==
    \A i \in 0..4 :
        ~f.effectsActive[i] /\ f.effectTimers[i] = 0 /\ f.effectCounters[i] = 0

\* C23: whatever effects are running, LED_ON and LED_OFF leave no effect
\* active (every flag false, every timer and counter zero); from then until
\* the next command is processed the LED stays at the level the command set,
\* over every later pass of loop(); and the command processed a second time,
\* right away or a pass later, leaves the state it left the first time.
C23_LedCommandEndsEffects ==
    \A command \in {"LED_ON", "LED_OFF"} :
        LET c == [NoFrame EXCEPT !.command = command]
            once == executeCommand(fw, c)
            later == [once EXCEPT !.millis = @ + TickMs]
        IN  /\ Quiet(once)
            /\ executeCommand(once, c) = once
            /\ executeCommand(later, c) = later
            /\ updateEffects(later) = later
            /\ (fw.done > 0 /\ fw.last.command = command) =>
                  /\ Quiet(fw)
                  /\ fw.led = (IF command = "LED_ON" THEN "HIGH" ELSE "LOW")
                  /\ fw.ledState = (command = "LED_ON")

\* the pattern effect was running when LED_ON was processed, and the LED has
\* been on over the two passes of loop() since
C23_Witness ==
    /\ fw.done = 2
    /\ fw.last.command = "LED_ON"
    /\ fw.patternString # << >>
    /\ fw.led = "HIGH"
    /\ fw.millis - fw.ledSince >= 2 * TickMs
    /\ fw.rx = << >>

\* C24 as the specification states it: once STOP_EFFECTS or RESET has been
\* processed no effect is active and the progress state of every effect is at
\* its initial value: the Morse position is the first symbol of the first
\* character, outside a gap, the pattern position is the first character, and
\* the fade is at brightness 0 going up.
C24_StopRestoresProgress ==
    (fw.done > 0 /\ fw.last.command \in {"STOP_EFFECTS", "RESET"}) =>
        /\ Quiet(fw)
        /\ fw.charIndex = setup.charIndex
        /\ fw.morseIndex = setup.morseIndex
        /\ fw.inSpace = setup.inSpace
        /\ fw.spaceType = setup.spaceType
        /\ fw.fadeValue = setup.fadeValue
        /\ fw.fadeDirection = setup.fadeDirection

\* C25 as the specification states it: with only the Morse effect active, no
\* on-period of the LED is longer than a dash, 300 ms (the on-periods of SOS
\* are dots of 100 ms and dashes of 300 ms, each followed by a gap).
C25_NoOnPeriodLongerThanADash ==
    (fw.effectsActive[2] /\ fw.led = "HIGH") => fw.millis - fw.ledSince <= 300

\* C26 as the specification states it: with only the pattern 101010 active,
\* the LED, once the pattern has lit it, changes with every 100 ms step: it
\* never stays at one level for longer than a step (the samples are HIGH, LOW,
\* HIGH, LOW, ... without end).
C26_PatternWrapsDirectly ==
    (fw.effectsActive[3] /\ fw.ledSince > setup.ledSince) =>
        fw.millis - fw.ledSince <= 100

\* C27 as the specification states it: every line dispatched to processCommand
\* is a complete line of at most 500 characters; nothing of a longer line is
\* dispatched.
C27_OverlongLineIsDropped ==
    fw.done > 0 => fw.last.line <= 500

\* C28 as the specification states it: the pass of loop() that processes a
\* state-changing command which succeeds prints a status frame besides the
\* response.
C28_StatusAfterStateChange ==
    [][(fw'.done = fw.done + 1
          /\ fw'.last.command \in (COMMANDS \ {"PING", "STATUS", "DIGITAL_READ",
                                               "ANALOG_READ"})
          /\ processCommand(fw'.last.command, fw'.last.params)) =>
            \E i \in 1..Len(fw'.out) : fw'.out[i].type = "status"]_vars

(***************************************************************************)
(* Properties of the serial handles of the control app (SpecPort).         *)
(***************************************************************************)

\* C30 as the specification states it: at most one serial handle holds a
\* device file at any time: a handle that initializeArduino closes has finished
\* closing before the handle that replaces it is open.
C30_OneOpenHandle ==
    Cardinality({h \in DOMAIN handles : handles[h].state \in {"open", "closing"}}) <= 1

(***************************************************************************)
(* Properties of the error reports of the relay (SpecErrors).              *)
(***************************************************************************)

\* the step handles a message of connection ws, or resumes the handler of one,
\* and this is the error it raises
Raises(ws, about) ==
    CASE about = "Invalid message format" -> handleMalformedMessage(ws)
      [] about = "Unknown message type" -> handleUnknownMessage(ws, "pong")
      [] about = "Invalid API key format" -> handleApiKeySetup(ws, NoKey)
      [] about = "Please configure your API key first" ->
            ~MapHas(userSessions, ws)
            /\ \E b \in BridgeIds \cup {NoBridge} : handleChatMessage(ws, b)
      [] about = "No Arduino bridge connected" ->
            \E b \in (BridgeIds \cup {NoBridge}) \ {e.id : e \in connectedBridges} :
                \/ handleChatMessage(ws, b)
                \/ \E m \in RelayCommands : handleArduinoCommand(ws, m.command, m.params, b)
      [] about = "Command timeout" ->
            \E a \in awaiting.handlers : a.ws = ws /\ RelayCommandTimeout(a.req)
      [] about = "AI processing failed" -> ModelReplies(ws, << >>, FALSE)
      [] about = "send failed" ->
            \E b \in BridgeIds, m \in RelayCommands :
                handleArduinoCommand(ws, m.command, m.params, b)
      [] OTHER -> FALSE

\* C21: an error raised while a message of a connection is handled (the
\* message is not JSON, its type is unknown, its API key is missing or
\* malformed, the connection has no Session, the bridge it names has no
\* registry entry, the command it sent to a bridge timed out, the model
\* failed) is reported to that connection only: an error message is the only
\* message of its step, it goes to the connection whose message raised it, and
\* the step closes no connection and leaves the Bridge Registry and the
\* Session of every other connection unchanged.
C21_ErrorGoesToOriginOnly ==
    [][\A report \in BagToSet(sent') :
          report.type \in {"error", "api_key_error", "chat_error", "command_error"} =>
              /\ sent' = SetToBag({report})
              /\ Raises(report.to, report.about)
              /\ conn' = conn
              /\ connectedBridges' = connectedBridges
              /\ {e \in userSessions' : e.id # report.to}
                    = {e \in userSessions : e.id # report.to}
              /\ chatSessions' \ {report.to} = chatSessions \ {report.to}]_vars

\* the command of connection 2 has timed out and connection 2 has been told
\* so, while connection 1, the bridge, has a Session and its registry entry
C21_Witness ==
    /\ sent = SetToBag({Msg(2, "command_error", "Command timeout")})
    /\ MapHas(userSessions, 1)
    /\ \E e \in connectedBridges : e.connection = 1
    /\ conn[2] = "open"
    /\ awaiting.handlers = {}

\* C22 as the specification states it: while the handling of a chat message
\* of a connection is suspended, the relay sends that connection no reply to a
\* message that arrived later: the only replies it can get are those of the
\* chat message.
C22_RepliesInArrivalOrder ==
    [][\A ws \in Conns :
          chat[ws].pc # "idle" =>
              \A reply \in BagToSet(sent') :
                  reply.to = ws =>
                      reply.type \in {"chat_response", "chat_error", "bridge_connected",
                                      "bridge_disconnected"}]_vars

(***************************************************************************)
(* The firmware under lines that address the pins, and under lines it      *)
(* refuses.                                                                *)
(***************************************************************************)
PinLines ==
    {[filler |-> 0, command |-> "LED_BLINK", params |-> [rate |-> 100]],
     [filler |-> 0, command |-> "RESET", params |-> NoParams],
     [filler |-> 0, command |-> "PIN_MODE",
      params |-> [pin |-> LED_BUILTIN, mode |-> "INPUT"]],
     [filler |-> 0, command |-> "DIGITAL_WRITE", params |-> [pin |-> LED_BUILTIN, value |-> 1]],
     [filler |-> 0, command |-> "DIGITAL_WRITE", params |-> [pin |-> LED_BUILTIN, value |-> 0]],
     [filler |-> 0, command |-> "DIGITAL_WRITE", params |-> [pin |-> 7, value |-> 1]],
     [filler |-> 0, command |-> "SERVO_WRITE", params |-> [pin |-> 9, angle |-> 90]]}

\* one line for each check of an executeCommand_* function
RefusedLines ==
    {[filler |-> 0, command |-> "LED_BLINK", params |-> [rate |-> 49]],
     [filler |-> 0, command |-> "LED_BLINK", params |-> [rate |-> 5001]],
     [filler |-> 0, command |-> "LED_FADE", params |-> [speed |-> 0]],
     [filler |-> 0, command |-> "LED_FADE", params |-> [speed |-> 11]],
     [filler |-> 0, command |-> "LED_MORSE", params |-> [text |-> << >>]],
     [filler |-> 0, command |-> "LED_MORSE", params |-> [text |-> [i \in 1..51 |-> "E"]]],
     [filler |-> 0, command |-> "LED_PATTERN", params |-> [pattern |-> << >>]],
     [filler |-> 0, command |-> "LED_PATTERN", params |-> [pattern |-> [i \in 1..101 |-> "1"]]],
     [filler |-> 0, command |-> "LED_PATTERN", params |-> [pattern |-> <<"1", "2">>]],
     [filler |-> 0, command |-> "PIN_MODE", params |-> [pin |-> 20, mode |-> "OUTPUT"]],
     [filler |-> 0, command |-> "PIN_MODE", params |-> [pin |-> 7, mode |-> "PULLUP"]],
     [filler |-> 0, command |-> "DIGITAL_WRITE", params |-> [pin |-> 20, value |-> 1]],
     [filler |-> 0, command |-> "DIGITAL_WRITE", params |-> [pin |-> 7, value |-> 2]],
     [filler |-> 0, command |-> "DIGITAL_READ", params |-> [pin |-> 20]],
     [filler |-> 0, command |-> "ANALOG_WRITE", params |-> [pin |-> 7, value |-> 0]],
     [filler |-> 0, command |-> "ANALOG_WRITE", params |-> [pin |-> 9, value |-> 256]],
     [filler |-> 0, command |-> "ANALOG_READ", params |-> [pin |-> 6]],
     [filler |-> 0, command |-> "SERVO_WRITE", params |-> [pin |-> 1, angle |-> 90]],
     [filler |-> 0, command |-> "SERVO_WRITE", params |-> [pin |-> 9, angle |-> 181]]}

NextPins ==
    \/ loop(MaxPinMillis)
    \/ \E l \in PinLines \cup RefusedLines : SerialWrite(l, MaxPinLines)

SpecPins == InitFirmware /\ [][NextPins]_vars

(***************************************************************************)
(* Properties of the firmware's pins (SpecPins).                           *)
(***************************************************************************)

\* C31: while any effect kind is active, a DIGITAL_WRITE or PIN_MODE command
\* addressed to the LED pin changes neither the output level nor the mode of
\* the LED pin: at every state the firmware reaches with an effect active,
\* executing such a command leaves both as they are.
C31_EffectOwnsLedPin ==
    (program = "firmware" /\ \E i \in 0..4 : fw.effectsActive[i]) =>
        \A c \in {l \in PinLines : /\ l.command \in {"DIGITAL_WRITE", "PIN_MODE"}
                                   /\ l.params.pin = LED_BUILTIN} :
            LET after == executeCommand(fw, c)
            IN  /\ after.led = fw.led
                /\ after.mode[LED_BUILTIN] = fw.mode[LED_BUILTIN]

\* C37: after setup the LED pin is in OUTPUT mode in every state the firmware
\* reaches, so that LED_ON, LED_OFF and the effects drive the LED.
C37_LedPinStaysOutput ==
    program = "firmware" => fw.mode[LED_BUILTIN] = "OUTPUT"

(***************************************************************************)
(* Properties of the firmware's effect bookkeeping (SpecFirmware).         *)
(***************************************************************************)

\* C36: the current-effect selector agrees with the active flags: when it names
\* blink, fade, morse or pattern, the flag of that kind is set, and when no flag
\* is set it is one of none, on, off.
C36_SelectorMatchesFlags ==
    program = "firmware" =>
        /\ fw.currentEffect = "blink" => fw.effectsActive[0]
        /\ fw.currentEffect = "fade" => fw.effectsActive[1]
        /\ fw.currentEffect = "morse" => fw.effectsActive[2]
        /\ fw.currentEffect = "pattern" => fw.effectsActive[3]
        /\ (\A i \in 0..4 : ~fw.effectsActive[i]) =>
               fw.currentEffect \in {"none", "on", "off"}

(***************************************************************************)
(* Properties of the firmware's refusals (SpecPins).                       *)
(***************************************************************************)

\* C34: a command the firmware refuses for an invalid parameter leaves the
\* whole device state as it is: at every state the firmware reaches, executing
\* any of the refused lines gives back the same state (effect flags, timers,
\* counters, selector, stored text and pattern, rates, pin modes, pin values,
\* servo attachments), and the response to such a line carries
\* success = false.
C34_RefusalChangesNothing ==
    program = "firmware" =>
        \A l \in RefusedLines :
            /\ executeCommand(fw, l) = fw
            /\ ~DeviceReply([id |-> 1, command |-> l.command, params |-> l.params]).success

\* a refused LED_BLINK has been answered while the blink effect, started with
\* another rate, is running
C34_Witness ==
    /\ program = "firmware"
    /\ fw.done = 2
    /\ fw.last.command = "LED_BLINK"
    /\ fw.last.params.rate = 49
    /\ fw.effectsActive[0]
    /\ fw.blinkRate = 100
    /\ \E i \in 1..Len(fw.out) : fw.out[i] = sendResponse(fw.last.id, FALSE, "result")

(***************************************************************************)
(* The fade effect, taken up while it runs: the brightness is near one of  *)
(* its bounds, going either way at any speed (a fade gets to each of these *)
(* states by LED_FADE lines with speed 1 and then the speed wanted), and   *)
(* the host may write LED_FADE lines with any speed.                       *)
(***************************************************************************)
InitFade ==
    /\ program = "firmware"
    /\ \E v \in (0..10) \cup (245..255), d \in {1, -1}, s \in 1..10 :
          /\ v = 0 => d = 1
          /\ v = 255 => d = -1
          /\ fw = [setup EXCEPT !.millis = FadeStart, !.lastHeartbeat = FadeStart,
                                !.led = "PWM", !.ledSince = FadeStart,
                                !.currentEffect = "fade", !.effectsActive[1] = TRUE,
                                !.effectTimers[1] = FadeStart,
                                !.fadeSpeed = s, !.fadeValue = v, !.fadeDirection = d]
    /\ handles = << >>
    /\ mirror = << >>
    /\ cloud = << >>
    /\ awaiting = [followed |-> FALSE, handlers |-> {}]
    /\ AppStart
    /\ RelayStart

NextFade ==
    \/ loop(MaxFadeMillis)
    \/ \E s \in 1..10 :
          SerialWrite([filler |-> 0, command |-> "LED_FADE", params |-> [speed |-> s]],
                      MaxFadeLines)

SpecFade == InitFade /\ [][NextFade]_vars

(***************************************************************************)
(* Properties of the fade effect (SpecFade).                               *)
(***************************************************************************)

\* C33: the brightness of the fade is within 0..255 in every state; a fade
\* step moves it by exactly the current speed in the current direction, or sets
\* it to the bound the move would cross; the direction is upward right after
\* the value reaches 0 and downward right after it reaches 255, and is not
\* changed otherwise; a pass of loop() without a fade step leaves the value
\* alone.  This holds for every speed in 1..10 and when a LED_FADE line changes
\* the speed while the fade runs.
C33_FadePingPongs ==
    [][program = "firmware" =>
        LET \* a pass of loop() has made a fade step: the fade timer is set to the
            \* time of the pass, and not by a LED_FADE line processed in it
            Step == /\ fw'.millis # fw.millis
                    /\ fw'.effectsActive[1]
                    /\ fw'.effectTimers[1] = fw'.millis
                    /\ ~(fw'.done # fw.done /\ fw'.last.command = "LED_FADE")
            target == fw.fadeValue + fw.fadeDirection * fw'.fadeSpeed
        IN  /\ fw'.fadeValue \in 0..255
            /\ fw'.fadeSpeed \in 1..10
            /\ Step => /\ fw'.fadeValue = IF target <= 0 THEN 0
                                          ELSE IF target >= 255 THEN 255 ELSE target
                       /\ fw'.fadeDirection = IF fw'.fadeValue = 0 THEN 1
                                              ELSE IF fw'.fadeValue = 255 THEN -1
                                              ELSE fw.fadeDirection
            /\ ~Step => /\ fw'.fadeValue = fw.fadeValue
                        /\ fw'.fadeDirection = fw.fadeDirection
            \* a step is made as soon as 100 / speed ms have passed
            /\ (/\ fw'.millis # fw.millis
                /\ fw'.effectsActive[1]
                /\ ~(fw'.done # fw.done /\ fw'.last.command = "LED_FADE")
                /\ fw'.millis - fw.effectTimers[1] >= 100 \div fw'.fadeSpeed) => Step]_vars

\* the fade has stepped up to 255 at the speed a LED_FADE line gave it while
\* it ran, and now goes down
C33_Witness ==
    /\ program = "firmware"
    /\ fw.done = 1
    /\ fw.last.command = "LED_FADE"
    /\ fw.fadeSpeed = fw.last.params.speed
    /\ fw.out = << >>
    /\ fw.effectTimers[1] = fw.millis
    /\ fw.millis > FadeStart
    /\ fw.fadeValue = 255
    /\ fw.fadeDirection = -1

(***************************************************************************)
(* The relay with a bridge whose serial port has the firmware behind it:   *)
(* the firmware answers the lines the bridge wrote, and the bridge's       *)
(* handleArduinoResponse forwards each answer to the relay as an           *)
(* arduino_response frame, which carries no commandId.                     *)
(***************************************************************************)
BridgeDeviceLoop ==
    /\ program = "relay"
    /\ wire # << >>
    /\ serialIn' = Append(serialIn, DeviceReply(Head(wire)))
    /\ wire' = Tail(wire)
    /\ UNCHANGED <<program, deviceVars, relayVars, sessionVars, arduinoOpen, connected,
                   nextCmd, requests, responseQueue, timeouts, writePending, lastResponse,
                   lastCall, turn>>

\* handleArduinoResponse of the bridge; ws is its cloudConnection
forwardArduinoResponse(ws) ==
    /\ program = "relay"
    /\ serialIn # << >>
    /\ isBridge(ws)
    /\ serialIn' = Tail(serialIn)
    /\ fromBridge' = IF conn[ws] = "open"
                     THEN fromBridge \cup {[ws |-> ws, type |-> "arduino_response",
                                            commandId |-> NoId]}
                     ELSE fromBridge
    /\ sent' = EmptyBag
    /\ UNCHANGED <<program, deviceVars, sessionVars, arduinoOpen, connected, nextCmd,
                   requests, responseQueue, timeouts, writePending, wire, lastResponse,
                   lastCall, turn, awaiting, bridgeId, conn, connectedBridges, now,
                   nextSweep, nextRelayCmd, commands, cmdTimeouts, listeners, toBridge>>

NextBridge ==
    \/ Connect
    \/ Disconnect
    \/ BridgeRegister
    \/ UserCommand
    \/ RelayTimerFires
    \/ BridgeHandles
    \/ RelayReceives
    \/ BridgeDeviceLoop
    \/ \E ws \in Conns : forwardArduinoResponse(ws)

SpecBridge == InitRelay /\ [][NextBridge]_vars

(***************************************************************************)
(* Properties of the bridge's command handling (SpecBridge).               *)
(***************************************************************************)

\* C32: the bridge reports command_result for a relayed arduino_command only
\* after it has received the device's response to that command over the serial
\* port: in the step in which a command_result frame leaves the bridge, the
\* line the bridge wrote for the command (its id is the latest the bridge
\* generated) is neither waiting to be read by the device nor answered by a
\* line the bridge has not read yet.
C32_ResultOnlyAfterDeviceAnswer ==
    [][program = "relay" =>
        \A m \in fromBridge' \ fromBridge :
            m.type = "command_result" =>
                /\ \A i \in 1..Len(wire') : wire'[i].id # nextCmd'
                /\ \A i \in 1..Len(serialIn') : serialIn'[i].id # nextCmd']_vars

(***************************************************************************)
(* sendCommand called directly, with and without an expected response.     *)
(* No caller in the control app passes expectResponse = false; the calls   *)
(* here stand for any caller of the function.                              *)
(***************************************************************************)
NextSend ==
    \/ PortOpen
    \/ PortClose
    \/ \E c \in DirectCommands, expectResponse \in BOOLEAN :
          /\ program = "app"
          /\ nextCmd < MaxCmd
          /\ sendCommand(c.command, c.params, expectResponse)
          /\ lastCall' = [op |-> "sendCommand", args |-> c.params,
                          outcome |-> IF arduinoOpen THEN "sent" ELSE "NotConnected"]
          /\ UNCHANGED <<program, deviceVars, relayVars, sessionVars, arduinoOpen, connected,
                         serialIn, lastResponse, turn>>
    \/ TimerFires
    \/ WriteDone
    \/ DeviceLoop
    \/ handleArduinoResponse

SpecSend == InitApp /\ [][NextSend]_vars

(***************************************************************************)
(* Properties of sendCommand (SpecSend).                                   *)
(***************************************************************************)

\* C40: sendCommand on a transport that is not open fails with the
\* not-connected error without creating a Pending Request and without writing
\* anything; with expectResponse = false it creates no Pending Request and no
\* timer, and its Promise is settled when the write callback runs: resolved if
\* the write succeeded.  So every entry of the pending set belongs to a pending
\* request for which a response is awaited.
C40_PendingOnlyWhenAwaited ==
    [][program = "app" =>
        /\ (lastCall' # lastCall /\ ~arduinoOpen) =>
              /\ lastCall'.outcome = "NotConnected"
              /\ UNCHANGED <<responseQueue, requests, timeouts, writePending, wire, nextCmd>>
        /\ (lastCall' # lastCall /\ arduinoOpen) =>
              /\ lastCall'.outcome = "sent"
              /\ Len(wire') = Len(wire) + 1
        /\ \A e \in responseQueue' :
              /\ requests'[e.req].expectResponse
              /\ requests'[e.req].id = e.id
              /\ requests'[e.req].promise = "pending"
        /\ \A r \in 1..Len(requests') :
              ~requests'[r].expectResponse =>
                  /\ r \notin timeouts'
                  /\ IF r \in writePending'
                     THEN requests'[r].promise = "pending"
                     ELSE requests'[r].promise \in {"resolved:written", "rejected:write"}
                  /\ (r <= Len(requests) /\ requests[r].promise # "pending") =>
                         requests'[r] = requests[r]]_vars

\* a call without expected response was resolved by its write callback, and a
\* later call found the port closed
C40_Witness ==
    /\ program = "app"
    /\ lastCall.outcome = "NotConnected"
    /\ lastCall.op = "sendCommand"
    /\ \E r \in 1..Len(requests) :
          /\ ~requests[r].expectResponse
          /\ requests[r].promise = "resolved:written"

(***************************************************************************)
(* Properties of the connected flag across reconnects (SpecPort).          *)
(***************************************************************************)

\* C38: the connected flag follows the current serial handle: once the port
\* made by the latest initializeArduino call is open and the flag is true, the
\* 'close' event of an earlier handle, delivered while the current port stays
\* open, leaves the flag true.
C38_ConnectedFollowsCurrentHandle ==
    [][(/\ program = "app"
        /\ handles # << >>
        /\ Len(handles') = Len(handles)
        /\ handles[Len(handles)].state = "open"
        /\ handles'[Len(handles)].state = "open"
        /\ connected
        /\ \E g \in 1..(Len(handles) - 1) :
              /\ handles[g].state \in {"open", "closing"}
              /\ handles'[g].state = "closed")
       => connected']_vars

(***************************************************************************)
(* The mirrored hardware snapshot of the control app, systemState.hardware,*)
(* beside the firmware it mirrors.  A call of an ArduinoController method  *)
(* is followed as one step from the call to its return: sendCommand writes *)
(* the line, the firmware executes it and answers, handleArduinoResponse   *)
(* resolves the Promise with the response frame whatever its success flag, *)
(* and the method goes on after its await.  The pins, the sensors and      *)
(* the methods ledMorse and ledPattern are not followed.                   *)
(***************************************************************************)
\* the assignments to systemState.hardware a method makes after its await
hardware(m, op) ==
    LET none == [e \in {"blinking", "fading", "pattern", "morse", "rainbow"} |-> FALSE]
    IN  CASE op = "ledOn" -> [m EXCEPT !.led = TRUE]
          [] op = "ledOff" -> [m EXCEPT !.led = FALSE, !.effects.blinking = FALSE,
                                        !.effects.fading = FALSE]
          [] op = "ledBlink" -> [m EXCEPT !.effects.blinking = TRUE]
          [] op = "ledFade" -> [m EXCEPT !.effects.fading = TRUE]
          [] op = "stopEffects" -> [m EXCEPT !.effects = none]
          [] op = "resetArduino" -> [m EXCEPT !.led = FALSE, !.effects = none]
          [] OTHER -> m

\* a method is called with the port open and returns
DispatcherCompletes(op, args) ==
    LET plan == ArduinoController(op, args) IN
    /\ program = "app"
    /\ arduinoOpen
    /\ mirror.calls < MaxMirror
    /\ ~plan.throws
    /\ fw' = executeCommand(fw, Frame(mirror.calls + 1, plan.command, plan.params))
    /\ mirror' = [hardware(mirror, op) EXCEPT !.calls = @ + 1]
    /\ UNCHANGED <<program, handles, cloud, appVars, relayVars, sessionVars>>

\* a status frame of the firmware arrives: updateSystemState(parsed.data)
updateSystemState ==
    /\ program = "app"
    /\ mirror' = [mirror EXCEPT
                     !.led = fw.ledState,
                     !.effects = [blinking |-> fw.effectsActive[0],
                                  fading |-> fw.effectsActive[1],
                                  morse |-> fw.effectsActive[2],
                                  pattern |-> fw.effectsActive[3],
                                  rainbow |-> fw.effectsActive[4]]]
    /\ UNCHANGED <<program, fw, handles, cloud, appVars, relayVars, sessionVars>>

InitMirror ==
    /\ program = "app"
    /\ fw = setup
    /\ mirror = [led |-> FALSE,
                 effects |-> [e \in {"blinking", "fading", "pattern", "morse", "rainbow"}
                                |-> FALSE],
                 calls |-> 0]
    /\ handles = << >>
    /\ cloud = << >>
    /\ awaiting = [followed |-> FALSE, handlers |-> {}]
    /\ AppStart
    /\ RelayStart

NextMirror ==
    \/ PortOpen
    \/ \E c \in CtlCalls : DispatcherCompletes(c.op, c.args)
    \/ updateSystemState

SpecMirror == InitMirror /\ [][NextMirror]_vars

(***************************************************************************)
(* Properties of the mirrored hardware snapshot (SpecMirror).              *)
(***************************************************************************)

\* C35: whenever a Dispatcher operation has completed and no command is in
\* flight, the mirrored LED state and the five mirrored effect flags equal the
\* firmware's ledState and effectsActive flags.
C35_MirrorTracksDevice ==
    [][program = "app" =>
        /\ mirror'.led = fw'.ledState
        /\ mirror'.effects.blinking = fw'.effectsActive[0]
        /\ mirror'.effects.fading = fw'.effectsActive[1]
        /\ mirror'.effects.morse = fw'.effectsActive[2]
        /\ mirror'.effects.pattern = fw'.effectsActive[3]
        /\ mirror'.effects.rainbow = fw'.effectsActive[4]]_vars

(***************************************************************************)
(* The bridge's connection to the relay.  Each call of connectToCloud      *)
(* makes a WebSocket object; cloudConnection is the latest of them.  ws is *)
(* the relay connection the object gets when the relay accepts it: the     *)
(* next one the relay has not accepted yet.  An object is "connecting"     *)
(* until its 'open' or 'close' event, then "open" until its 'close'        *)
(* event, then "closed".  A failed attempt emits 'error', whose handler    *)
(* only clears a flag, and then 'close'.                                   *)
(***************************************************************************)
connectToCloud ==
    LET ws == Cardinality({c \in Conns : conn[c] # "new"}) + 1 IN
    /\ program = "relay"
    /\ cloud.timers > 0
    /\ Len(cloud.sockets) < MaxSockets
    /\ ws \in Conns
    /\ cloud' = [cloud EXCEPT !.timers = @ - 1,
                              !.sockets = Append(@, [ws |-> ws, state |-> "connecting"])]
    /\ UNCHANGED <<program, fw, handles, mirror, appVars, relayVars, sessionVars>>

\* the 'open' handler of socket k: bridge_register goes out on cloudConnection
cloudOpen(k) ==
    LET opened == [cloud.sockets EXCEPT ![k].state = "open"]
        cloudConnection == opened[Len(opened)]
    IN  /\ program = "relay"
        /\ cloud.sockets[k].state = "connecting"
        /\ conn[cloud.sockets[k].ws] = "open"
        /\ cloud' = [cloud EXCEPT
                        !.sockets = opened,
                        !.registers = IF cloudConnection.state = "open"
                                      THEN @ \cup {[ws |-> cloudConnection.ws,
                                                    bridgeId |-> "b1"]}
                                      ELSE @]
        /\ UNCHANGED <<program, fw, handles, mirror, appVars, relayVars, sessionVars>>

\* faulty variant of the 'close' handler: no reconnect is scheduled
cloudCloseWithoutReconnect(k) ==
    /\ program = "relay"
    /\ cloud.sockets[k].state \in {"connecting", "open"}
    /\ cloud' = [cloud EXCEPT !.sockets[k].state = "closed"]
    /\ UNCHANGED <<program, fw, handles, mirror, appVars, relayVars, sessionVars>>

\* the 'close' handler of socket k: setTimeout(connectToCloud, 5000)
cloudClose(k) ==
    /\ program = "relay"
    /\ cloud.sockets[k].state \in {"connecting", "open"}
    /\ cloud' = [cloud EXCEPT !.sockets[k].state = "closed", !.timers = @ + 1]
    /\ UNCHANGED <<program, fw, handles, mirror, appVars, relayVars, sessionVars>>

\* the relay accepts the connection of a socket of the bridge
CloudAccept ==
    \E ws \in Conns :
        /\ \E k \in DOMAIN cloud.sockets :
              cloud.sockets[k] = [ws |-> ws, state |-> "connecting"]
        /\ Connection(ws)

\* after initializeBridge: connectToCloud has been called once
InitCloud ==
    /\ program = "relay"
    /\ AppStart
    /\ RelayStart
    /\ fw = << >>
    /\ handles = << >>
    /\ mirror = << >>
    /\ awaiting = [followed |-> FALSE, handlers |-> {}]
    /\ cloud = [sockets |-> <<[ws |-> 1, state |-> "connecting"]>>, timers |-> 0,
                registers |-> {}]

NextCloud ==
    \/ connectToCloud
    \/ CloudAccept
    \/ \E k \in DOMAIN cloud.sockets : cloudOpen(k)
    \/ \E k \in DOMAIN cloud.sockets : cloudClose(k)
    \/ \E f \in cloud.registers :
          bridgeId[f.ws] = NoBridge /\ handleBridgeRegistration(f.ws, f.bridgeId)
    \/ Disconnect
    \/ BridgeHeartbeat
    \/ Tick

\* the reconnect timer fires, the relay is reachable and accepts, the 'open'
\* event is delivered, and so is the 'close' event of a socket whose
\* connection the relay has seen closing
SpecCloud ==
    /\ InitCloud
    /\ [][NextCloud]_vars
    /\ WF_vars(connectToCloud)
    /\ WF_vars(CloudAccept)
    /\ WF_vars(\E k \in DOMAIN cloud.sockets : cloudOpen(k))
    /\ WF_vars(\E k \in DOMAIN cloud.sockets :
                    conn[cloud.sockets[k].ws] = "closed" /\ cloudClose(k))

(***************************************************************************)
(* Properties of the bridge's reconnect (SpecCloud).                       *)
(***************************************************************************)

\* C39: at most one connection of the bridge is being established or open at
\* any time, and one that is counts no armed reconnect timer beside it; after a
\* connection of the bridge has closed, the bridge eventually has a later
\* connection open on which it has sent bridge_register with the same bridge
\* identity - as long as the run has a socket and a relay connection left for
\* it to reconnect with.
C39_ReconnectsOnce ==
    /\ [](program = "relay" =>
            Cardinality({k \in DOMAIN cloud.sockets :
                            cloud.sockets[k].state \in {"connecting", "open"}})
                + cloud.timers <= 1)
    /\ \A i \in 1..MaxSockets :
          (program = "relay" /\ i \in DOMAIN cloud.sockets
           /\ cloud.sockets[i].state = "closed")
          ~> (\/ \E j \in DOMAIN cloud.sockets :
                    /\ j > i
                    /\ cloud.sockets[j].state = "open"
                    /\ [ws |-> cloud.sockets[j].ws, bridgeId |-> "b1"] \in cloud.registers
              \/ /\ cloud.sockets[Len(cloud.sockets)].state = "closed"
                 /\ \/ Len(cloud.sockets) = MaxSockets
                    \/ \A c \in Conns : conn[c] # "new")

\* the second connection of the bridge is open and registered after the first
\* has closed
C39_Witness ==
    /\ program = "relay"
    /\ Len(cloud.sockets) = 2
    /\ cloud.sockets[1].state = "closed"
    /\ cloud.sockets[2].state = "open"
    /\ bridgeId[cloud.sockets[2].ws] = "b1"
    /\ [ws |-> cloud.sockets[2].ws, bridgeId |-> "b1"] \in cloud.registers

====
